---------------------------- MODULE Spec2Model ----------------------------
(***************************************************************************)
(* State-machine model of the call audio bridge, the provider session,     *)
(* the SIP retry timers and the dashboard sessions of                      *)
(* vaheed/sip-ai-agent (src/app/agent.py, auth.py, monitor.py,             *)
(* observability.py, sip_client.py).                                       *)
(*                                                                         *)
(* Several specifications share the variables of this module:              *)
(*   SpecFrame   - the frame accumulation loop and _normalize_chunk,       *)
(*                 applied to bounded inputs;                              *)
(*   SpecSession - one run of Call.start_openai_agent_realtime or          *)
(*                 start_openai_agent_legacy with its send task, receive   *)
(*                 task and the socket;                                    *)
(*   SpecBridge  - one AudioCallback with its telephony, provider and      *)
(*                 stop() threads;                                         *)
(*   SpecRecv, SpecSend - the realtime receive and send loops, one         *)
(*                 message or frame at a time;                             *)
(*   SpecRetry   - the INVITE and registration retry timers;               *)
(*   SpecAuth    - the session table of AuthManager and Monitor;           *)
(*   SpecCall    - Call.onCallState with the bridges and workers it starts *)
(*                 and stops;                                              *)
(*   SpecTimer   - EndpointTimer, native or threading.Timer fallback;      *)
(*   SpecCorr    - the correlation id of one Call;                         *)
(*   SpecDrain   - the capture queue and the loop that sends it;           *)
(*   SpecRecon   - registration and reconnection of EnhancedAccount        *)
(*                 (src/app/sip_client.py).                                *)
(* SpecSessionFair, SpecBridgeFair and SpecReconFair add the scheduling    *)
(* conditions.  A specification leaves the variables of the others at      *)
(* their initial values.                                                   *)
(***************************************************************************)
EXTENDS Integers, Sequences, FiniteSets, TLC

VARIABLES
    \* ---- frame accumulation (SpecFrame) ----
    fb_buffer,      \* the accumulation bytearray (_capture_buffer / _playback_buffer)
    fb_in,          \* history: concatenation of every chunk appended so far
    fb_out,         \* history: every frame sliced off so far, in order
    fb_last,        \* record of the last operation applied
    fb_ops,         \* number of operations applied so far
    \* ---- realtime provider session (SpecSession) ----
    ws,             \* Call.ws: "unset", "open", "closed", "cleared" (None again)
    committed,      \* Call._realtime_input_committed
    sent,           \* messages written to the socket, in order
    main_pc,        \* await point of start_openai_agent_realtime
    send_pc,        \* await point of send_task
    recv_pc,        \* await point of recv_task
    cb_ran,         \* recv_task's done callback _cancel_sender has run
    frames_left,    \* capture frames the bridge will still hand out
    inbound_left,   \* inbound messages the provider will still send
    is_active,      \* AudioCallback.is_active
    call_state,     \* the SIP call as onCallState last saw it
    sess_mode,      \* OPENAI_MODE of the session: "realtime" or "legacy"
    \* ---- audio bridge (SpecBridge) ----
    dir,            \* the direction this run of the bridge carries audio in
    stop_event,     \* AudioCallback._stop_event
    capture_queue,  \* AudioCallback.capture_queue
    playback_queue, \* AudioCallback.playback_queue
    capture_buffer, \* AudioCallback._capture_buffer
    playback_buffer,\* AudioCallback._playback_buffer
    audio_dropouts, \* the audio_dropouts_total counter of metrics.py
    cap_pc,         \* telephony thread inside putFrame
    cap_chunk,      \* putFrame's local chunk
    cap_seen,       \* capture bytes handed to putFrame so far
    cap_timeouts,   \* queue.Full timeouts of the current capture _blocking_put
    pp_pc,          \* provider thread inside queue_playback_frame
    pp_chunk,       \* queue_playback_frame's local chunk
    pb_seen,        \* playback bytes handed to queue_playback_frame so far
    ofr_pc,         \* telephony thread inside onFrameRequested
    ofr_chunk,      \* onFrameRequested's local chunk
    stop_pc,        \* thread inside stop()
    stop_chunk,     \* _flush_playback_sync's local data
    stop_calls,     \* history: number of calls of stop() so far
    cap_made,       \* history: frames sliced by putFrame, in order
    cap_got,        \* history: results returned by get_capture_frame
    pb_out,         \* history: what onFrameRequested delivered
    dropped,        \* history: frames discarded on a full queue
    \* ---- realtime receive loops, message by message (SpecRecv) ----
    rx_impl,        \* "call": Call.receive_audio_from_openai_realtime,
                    \* "agent": OpenAIAgent._receive_audio_realtime
    rx_pc,          \* "recv": awaiting ws.recv(); "done": the loop has ended
    rx_count,       \* inbound messages received so far
    rx_last,        \* the last message and what the loop did with it
    rx_error_seen,  \* history: a message of type error has been received
    rx_after_error, \* history: a message was received after one of type error
    \* ---- send loops, frame by frame (SpecSend) ----
    tx_impl,        \* "call": Call.send_audio_to_openai_*, "agent": OpenAIAgent._send_audio_*
    tx_mode,        \* "realtime" or "legacy"
    tx_pc,          \* "get": awaiting the next capture frame; "done": loop ended
    tx_count,       \* iterations of the loop so far
    tx_last,        \* the last iteration: what was taken and what was sent
    \* ---- retry schedulers (SpecRetry) ----
    timer_impl,     \* the timer EndpointTimer.schedule arms: "native" or "thread"
    target_uri,     \* Call.target_uri: "uri" on an outbound call, "none" on an inbound one
    invite_attempts,\* Call._invite_attempts
    inv_timer,      \* Call._invite_retry_timer: "idle" or "armed"
    inv_expired,    \* thread timers past their cancellation test, callback not yet run
    inv_call,       \* the call attempt: "dialing", "up" (confirmed), "down"
    inv_delays,     \* history: the delays scheduled since the last reset
    inv_fails,      \* history: disconnects with a 4xx-5xx status so far
    inv_limit,      \* history: invite_retry_limit events emitted so far
    inv_stops,      \* history: times retrying stopped with attempts >= the maximum
    inv_clean,      \* history: so far every attempt ended in a 4xx-5xx disconnect
    inv_events,     \* history: call-state events delivered so far
    inv_ok,         \* history: the last call-state event was CONFIRMED
    inv_late,       \* history: _retry_invite ran while inv_ok
    reg_retry_attempts, \* Account._reg_retry_attempts
    reg_timer,      \* Account._reg_retry_timer: "idle" or "armed"
    reg_expired,    \* thread timers past their cancellation test, callback not yet run
    reg_delays,     \* history: the delays scheduled since the last reset
    reg_events,     \* history: registration-state events delivered so far
    reg_last,       \* history: the last handler that ran and whether it left a timer armed
    reg_ok,         \* history: the last registration status was 200
    reg_late,       \* history: _retry_registration ran while reg_ok
    \* ---- session tokens of the web UI (SpecAuth) ----
    sess_impl,      \* "auth": AuthManager of auth.py, "monitor": Monitor of monitor.py
    sess_now,       \* time.time()
    sessions,       \* AuthManager.sessions / Monitor._sessions: token -> expires_at
    sess_issued,    \* history: tokens create_session has returned
    sess_revoked,   \* history: tokens removed by revoke_session / _clear_session
    sess_last,      \* history: the last operation, its input, its result and the store before it
    \* ---- _close_websocket (SpecSession) ----
    close_commit,   \* history: what the commit step before the close did
    close_calls,    \* history: one record per call of _close_websocket that returned
    \* ---- one Call through its call-state events (SpecCall) ----
    cl_audio,       \* ENABLE_AUDIO
    cl_mode,        \* OPENAI_MODE
    cl_target,      \* Call.target_uri: "uri" or "none"
    cl_role,        \* ci.role: "UAC" or "UAS"
    cl_state,       \* the invite session: "setup", "up", "down"
    cl_attempts,    \* Call._invite_attempts
    cl_timer,       \* Call._invite_retry_timer: "idle" or "armed"
    cl_bridges,     \* every AudioCallback created, as its is_active; audio_callback is the last
    cl_workers,     \* every provider thread started; openai_thread is the last
    cl_pc,          \* position of onCallState inside the DISCONNECTED branch
    cl_status,      \* ci.lastStatusCode of the disconnect being handled
    cl_log,         \* history: the steps of the last DISCONNECTED handler, in order
    cl_events,      \* number of call-state events delivered so far
    cl_last,        \* history: the last retry decision after a disconnect
    \* ---- one EndpointTimer (SpecTimer) ----
    tm_env,         \* the binding: "native", "missing" (no utilTimerSchedule / TimeVal), "failing" (it raises)
    tm_lib,         \* pj.Lib as _register_thread_with_pjlib finds it
    tm_native,      \* the native timer entry: "idle" or "armed"
    tm_timers,      \* every threading.Timer created, in order
    tm_ref,         \* EndpointTimer._thread_timer: index into tm_timers, 0 for None
    tm_native_calls, \* callback invocations through onTimeout
    tm_ops,         \* number of schedule and cancel calls so far
    \* ---- the correlation id of one Call (SpecCorr) ----
    co_id,          \* Call.correlation_id (0 stands for None / empty)
    co_first,       \* history: the id Call.__init__ generated
    co_fresh,       \* the next value generate_correlation_id returns
    co_cur,         \* _correlation_id_var in the running thread
    co_stack,       \* the correlation scopes entered and not yet left
    co_log,         \* history: the id current inside the last add_log of _log_event
    co_left,        \* history: the id before the last scope left, before entering and after leaving
    co_ops,         \* number of operations so far
    \* ---- a send loop on the capture queue (SpecDrain) ----
    sl_pc,          \* the send loop: "none", "top", "get", "send", "ended"
    sl_chunk,       \* audio_chunk of the send loop
    sl_sent,        \* history: the frames written to the socket, in order
    sl_ws,          \* the socket as the send loop finds it: "open" or "closed"
    \* ---- registration and reconnection of EnhancedAccount (SpecRecon) ----
    rc_registered,  \* EnhancedAccount.is_registered
    rc_attempts,    \* EnhancedAccount.registration_attempts
    rc_task,        \* EnhancedAccount.reconnect_task: "none", or the task "sleeping", "attempting", "done"
    rc_account,     \* the PJSIP account: "none", "registering" (a result is due), "settled"
    rc_delay,       \* the delay the last reconnect task was created with (0: none yet)
    rc_pending,     \* history: reconnect tasks created and not finished
    rc_failed       \* history: the last registration attempt failed

FrameVars == <<fb_buffer, fb_in, fb_out, fb_last, fb_ops>>

SessVars == <<ws, committed, sent, main_pc, send_pc, recv_pc, cb_ran,
              frames_left, inbound_left>>

CaptureVars == <<capture_queue, capture_buffer, cap_pc, cap_chunk, cap_seen,
                 cap_timeouts, cap_made, cap_got>>

PlaybackVars == <<playback_queue, playback_buffer, pp_pc, pp_chunk, pb_seen,
                  ofr_pc, ofr_chunk, pb_out>>

PlaybackVarsButPc == <<playback_queue, playback_buffer, pp_chunk, pb_seen,
                       ofr_pc, ofr_chunk, pb_out>>

StopVars == <<stop_event, stop_pc, stop_chunk, stop_calls>>

BridgeVars == <<dir, CaptureVars, PlaybackVars, StopVars, audio_dropouts, dropped>>

RecvVars == <<rx_impl, rx_pc, rx_count, rx_last, rx_error_seen, rx_after_error>>

SendVars == <<tx_impl, tx_mode, tx_pc, tx_count, tx_last>>

RetryVars == <<timer_impl, target_uri, invite_attempts, inv_timer,
    inv_expired, inv_call, inv_delays, inv_fails, inv_limit, inv_stops,
    inv_clean, inv_events, inv_ok, inv_late, reg_retry_attempts, reg_timer,
    reg_expired, reg_delays, reg_events, reg_last, reg_ok, reg_late>>

AuthVars == <<sess_impl, sess_now, sessions, sess_issued, sess_revoked,
    sess_last>>

CloseVars == <<close_commit, close_calls>>

CallVars == <<cl_audio, cl_mode, cl_target, cl_role, cl_state, cl_attempts,
    cl_timer, cl_bridges, cl_workers, cl_pc, cl_status, cl_log, cl_events,
    cl_last>>

TimerVars == <<tm_env, tm_lib, tm_native, tm_timers, tm_ref,
    tm_native_calls, tm_ops>>

CorrVars == <<co_id, co_first, co_fresh, co_cur, co_stack, co_log, co_left,
    co_ops>>

DrainVars == <<sl_pc, sl_chunk, sl_sent, sl_ws>>

ReconVars == <<rc_registered, rc_attempts, rc_task, rc_account, rc_delay,
    rc_pending, rc_failed>>

\* What an action of one group leaves alone.
NotSess == <<FrameVars, BridgeVars, RecvVars, SendVars, call_state,
    RetryVars,
    AuthVars, sess_mode,
    CloseVars,
    CallVars,
    TimerVars,
    CorrVars,
    DrainVars,
    ReconVars>>

\* What the steps of the session that record the close leave alone.
NotSessButClose == <<FrameVars, BridgeVars, RecvVars, SendVars, call_state,
    RetryVars,
    AuthVars, sess_mode,
    CallVars,
    TimerVars,
    CorrVars,
    DrainVars,
    ReconVars>>

NotFrame == <<SessVars, BridgeVars, RecvVars, SendVars, is_active, call_state,
    RetryVars,
    AuthVars, sess_mode,
    CloseVars,
    CallVars,
    TimerVars,
    CorrVars,
    DrainVars,
    ReconVars>>

NotBridge == <<FrameVars, SessVars, RecvVars, SendVars, call_state,
    RetryVars,
    AuthVars, sess_mode,
    CloseVars,
    CallVars,
    TimerVars,
    CorrVars,
    DrainVars,
    ReconVars>>

NotRecv == <<FrameVars, SessVars, BridgeVars, SendVars, is_active, call_state,
    RetryVars,
    AuthVars, sess_mode,
    CloseVars,
    CallVars,
    TimerVars,
    CorrVars,
    DrainVars,
    ReconVars>>

NotSend == <<FrameVars, SessVars, BridgeVars, RecvVars, is_active, call_state,
    RetryVars,
    AuthVars, sess_mode,
    CloseVars,
    CallVars,
    TimerVars,
    CorrVars,
    DrainVars,
    ReconVars>>

vars == <<FrameVars, SessVars, is_active, call_state, BridgeVars, RecvVars, SendVars,
    RetryVars,
    AuthVars, sess_mode,
    CloseVars,
    CallVars,
    TimerVars,
    CorrVars,
    DrainVars,
    ReconVars>>

(***************************************************************************)
(* Sizes.  The audio constants are modelled at reduced scale: a frame of   *)
(* FRAME_BYTES bytes and queues of MAX_PENDING_FRAMES entries.             *)
(***************************************************************************)
FRAME_BYTES == 2

MAX_PENDING_FRAMES == 2

MaxChunk == 3

MaxAppends == 3

\* Capture frames and inbound messages of one provider session.
MaxSessFrames == 2

MaxCloseCalls == 2

MaxInbound == 2

\* Bytes handed to the bridge in each direction.
MaxCapBytes == 6

MaxPbBytes == 4

\* Results get_capture_frame and onFrameRequested hand out in one run.
MaxGets == 4

MaxPulls == 3

\* Retries of a timed-out put the model counts before it stops counting.
MaxPutTimeouts == 2

\* Calls of stop().
MaxStopCalls == 2

\* Inbound messages of one receive loop, and characters of a delta string.
MaxRx == 2

MaxDeltaLen == 4

\* Iterations of one send loop.
MaxTx == 2

\* Byte values used for the inputs of _normalize_chunk; 0 is the padding byte.
Byte == {0, 1, 2}

Min(a, b) == IF a < b THEN a ELSE b

\* b"\x00" * n
Zeros(n) == [i \in 1..n |-> 0]

\* data[:n]
Take(data, n) == SubSeq(data, 1, Min(n, Len(data)))

\* data after "del data[:n]"
Drop(data, n) == SubSeq(data, Min(n, Len(data)) + 1, Len(data))

RECURSIVE Concat(_)
Concat(frames) ==
    IF frames = <<>> THEN <<>> ELSE Head(frames) \o Concat(Tail(frames))

\* All sequences over S of length 0..n.
SeqsUpTo(S, n) == UNION {[1..k -> S] : k \in 0..n}

(***************************************************************************)
(* AudioCallback._normalize_chunk                                          *)
(***************************************************************************)
normalize_chunk_leftpad(data) ==
    IF Len(data) = 0 THEN Zeros(FRAME_BYTES)
    ELSE IF Len(data) < FRAME_BYTES
         THEN Zeros(FRAME_BYTES - Len(data)) \o data
    ELSE IF Len(data) > FRAME_BYTES THEN Take(data, FRAME_BYTES)
    ELSE data

\* No normalisation at all, for comparison.
normalize_chunk_none(data) == data

normalize_chunk(data) ==
    IF Len(data) = 0 THEN Zeros(FRAME_BYTES)
    ELSE IF Len(data) < FRAME_BYTES
         THEN data \o Zeros(FRAME_BYTES - Len(data))
    ELSE IF Len(data) > FRAME_BYTES THEN Take(data, FRAME_BYTES)
    ELSE data

(***************************************************************************)
(* The accumulation loop of putFrame and queue_playback_frame:             *)
(*     while len(buffer) >= FRAME_BYTES:                                   *)
(*         chunk = bytes(buffer[:FRAME_BYTES]); del buffer[:FRAME_BYTES]   *)
(***************************************************************************)
HasFrameStrict(buffer) == Len(buffer) > FRAME_BYTES

HasFrame(buffer) == Len(buffer) >= FRAME_BYTES

SliceChunkLong(buffer) == Take(buffer, FRAME_BYTES + 1)

SliceChunk(buffer) == Take(buffer, FRAME_BYTES)

DelChunk(buffer) == Drop(buffer, FRAME_BYTES)

RECURSIVE SliceFrames(_, _)
SliceFrames(buffer, frames) ==
    IF HasFrame(buffer)
    THEN SliceFrames(DelChunk(buffer), Append(frames, SliceChunk(buffer)))
    ELSE [frames |-> frames, rest |-> buffer]

\* The n bytes that arrive after `seen` bytes: the input stream is 1, 2, 3, ...
NextBytes(seen, n) == [i \in 1..n |-> seen + i]

FbInit ==
    /\ fb_buffer = <<>>
    /\ fb_in = <<>>
    /\ fb_out = <<>>
    /\ fb_last = [op |-> "none"]
    /\ fb_ops = 0

\* buffer.extend(data) followed by the slicing loop (putFrame 298-302,
\* queue_playback_frame 324-329), for a non-empty chunk.
FbAppend(n) ==
    /\ fb_ops < MaxAppends
    /\ LET data == NextBytes(Len(fb_in), n)
           r    == SliceFrames(fb_buffer \o data, <<>>)
       IN /\ fb_buffer' = r.rest
          /\ fb_in' = fb_in \o data
          /\ fb_out' = fb_out \o r.frames
          /\ fb_last' = [op |-> "append", before |-> fb_buffer, data |-> data,
                         frames |-> r.frames, rest |-> r.rest]
    /\ fb_ops' = fb_ops + 1
    /\ UNCHANGED NotFrame

\* One call of _normalize_chunk.
FbNormalize(data) ==
    /\ fb_ops < MaxAppends
    /\ fb_last' = [op |-> "normalize", data |-> data,
                   result |-> normalize_chunk(data)]
    /\ fb_ops' = fb_ops + 1
    /\ UNCHANGED <<fb_buffer, fb_in, fb_out>>
    /\ UNCHANGED NotFrame

(***************************************************************************)
(* Provider session: Call.start_openai_agent_realtime, or                  *)
(* Call.start_openai_agent_legacy, which differs in its messages and has   *)
(* no commit step, and its two                                             *)
(* tasks.  The three coroutines share one event loop, so a coroutine runs  *)
(* from one await to the next without interleaving; each pc value names    *)
(* the await a coroutine is suspended on.  The bridge flag is_active and    *)
(* the provider's end of the socket change from outside the loop.          *)
(***************************************************************************)
\* OPENAI_MODE selects start_openai_agent_realtime or start_openai_agent_legacy.
SessModes == {"realtime", "legacy"}

\* The message a send loop writes for one capture frame: an
\* input_audio_buffer.append, or the frame itself as a binary message.
AudioMessage(mode) == IF mode = "realtime" THEN "append" ELSE "audio"

\* A session that opens with audio instead of its configuration, for
\* comparison.
ConfigLeftOut(mode) == AudioMessage(mode)

\* The first message of a session: session.update, or the legacy
\* configuration object.
ConfigMessage(mode) == IF mode = "realtime" THEN "session.update" ELSE "config"

SessInit ==
    /\ call_state = "confirmed"
    /\ sess_mode \in SessModes
    /\ ws = "unset"
    /\ committed = FALSE
    /\ sent = <<>>
    /\ main_pc = "m_connect"
    /\ send_pc = "s_none"
    /\ recv_pc = "r_none"
    /\ cb_ran = FALSE
    /\ frames_left = MaxSessFrames
    /\ inbound_left = MaxInbound

SessIdle ==
    /\ call_state = "confirmed"
    /\ sess_mode = "realtime"
    /\ ws = "unset"
    /\ committed = FALSE
    /\ sent = <<>>
    /\ main_pc = "m_idle"
    /\ send_pc = "s_none"
    /\ recv_pc = "r_none"
    /\ cb_ran = FALSE
    /\ frames_left = 0
    /\ inbound_left = 0

\* "if self._realtime_input_committed or not self.ws or self.ws.closed: return"
CommitSkipped == committed \/ ws # "open"

\* "while self.audio_callback.is_active" after an iteration of the send loop.
SendLoopNext == IF is_active THEN "s_get" ELSE "s_done"

\* "while self.ws and not self.ws.closed" after an iteration of the receive
\* loop; on exit the finally clause flushes playback and the task is done.
RecvLoopNext(w) == IF w = "open" THEN "r_recv" ELSE "r_done"

\* websockets.connect succeeded: ws is set, the flag is reset and
\* session.update is written; the coroutine awaits that send.
MainConnectOk ==
    /\ main_pc = "m_connect"
    /\ ws' = "open"
    /\ committed' = (IF sess_mode = "realtime" THEN FALSE ELSE committed)
    /\ sent' = Append(sent, ConfigMessage(sess_mode))
    /\ main_pc' = "m_update"
    /\ UNCHANGED <<send_pc, recv_pc, cb_ran, frames_left, inbound_left, is_active>>
    /\ UNCHANGED NotSess

\* websockets.connect raised: logged and re-raised.
MainConnectFail ==
    /\ main_pc = "m_connect"
    /\ main_pc' = "m_raised"
    /\ UNCHANGED <<ws, committed, sent, send_pc, recv_pc, cb_ran, frames_left,
                   inbound_left, is_active>>
    /\ UNCHANGED NotSess

\* The session.update send completed: both tasks are created and the
\* coroutine awaits send_task.  On a socket closed meanwhile the send raises.
MainUpdateDone ==
    /\ main_pc = "m_update"
    /\ IF ws = "open"
       THEN /\ send_pc' = "s_start"
            /\ recv_pc' = "r_start"
            /\ main_pc' = "m_await_send"
       ELSE /\ main_pc' = "m_raised"
            /\ UNCHANGED <<send_pc, recv_pc>>
    /\ UNCHANGED <<ws, committed, sent, cb_ran, frames_left, inbound_left, is_active>>
    /\ UNCHANGED NotSess

\* send_audio_to_openai_realtime runs up to its first await.
SendStart ==
    /\ send_pc = "s_start"
    /\ send_pc' = SendLoopNext
    /\ UNCHANGED <<ws, committed, sent, main_pc, recv_pc, cb_ran, frames_left,
                   inbound_left, is_active>>
    /\ UNCHANGED NotSess

\* get_capture_frame returned a frame: with the socket open one
\* input_audio_buffer.append is written and the task awaits the send.
SendGotFrame ==
    /\ send_pc = "s_get"
    /\ frames_left > 0
    /\ frames_left' = frames_left - 1
    /\ IF ws = "open"
       THEN /\ sent' = Append(sent, AudioMessage(sess_mode))
            /\ send_pc' = "s_send"
       ELSE /\ sent' = sent
            /\ send_pc' = SendLoopNext
    /\ UNCHANGED <<ws, committed, main_pc, recv_pc, cb_ran, inbound_left, is_active>>
    /\ UNCHANGED NotSess

\* get_capture_frame returned b'' (bridge stopped, queue drained): break.
SendGotEmpty ==
    /\ send_pc = "s_get"
    /\ ~is_active
    /\ frames_left = 0
    /\ send_pc' = "s_done"
    /\ UNCHANGED <<ws, committed, sent, main_pc, recv_pc, cb_ran, frames_left,
                   inbound_left, is_active>>
    /\ UNCHANGED NotSess

\* The send of an append completed.
SendResume ==
    /\ send_pc = "s_send"
    /\ send_pc' = SendLoopNext
    /\ UNCHANGED <<ws, committed, sent, main_pc, recv_pc, cb_ran, frames_left,
                   inbound_left, is_active>>
    /\ UNCHANGED NotSess

\* The send of an append raised on a closed socket: logged, loop ends.
SendRaise ==
    /\ send_pc = "s_send"
    /\ ws # "open"
    /\ send_pc' = "s_done"
    /\ UNCHANGED <<ws, committed, sent, main_pc, recv_pc, cb_ran, frames_left,
                   inbound_left, is_active>>
    /\ UNCHANGED NotSess

\* receive_audio_from_openai_realtime runs up to its first await.
RecvStart ==
    /\ recv_pc = "r_start"
    /\ recv_pc' = RecvLoopNext(ws)
    /\ UNCHANGED <<ws, committed, sent, main_pc, send_pc, cb_ran, frames_left,
                   inbound_left, is_active>>
    /\ UNCHANGED NotSess

\* ws.recv() returned a message that is neither response.completed nor
\* playable audio the model tracks: nothing is written to the socket.
RecvOther ==
    /\ recv_pc = "r_recv"
    /\ ws = "open"
    /\ inbound_left > 0
    /\ inbound_left' = inbound_left - 1
    /\ recv_pc' = RecvLoopNext(ws)
    /\ UNCHANGED <<ws, committed, sent, main_pc, send_pc, cb_ran, frames_left, is_active>>
    /\ UNCHANGED NotSess

\* ws.recv() returned response.completed: _send_realtime_commit is called.
RecvCompleted ==
    /\ sess_mode = "realtime"
    /\ recv_pc = "r_recv"
    /\ ws = "open"
    /\ inbound_left > 0
    /\ inbound_left' = inbound_left - 1
    /\ IF CommitSkipped
       THEN /\ sent' = sent
            /\ recv_pc' = RecvLoopNext(ws)
       ELSE /\ sent' = Append(sent, "commit")
            /\ recv_pc' = "r_commit"
    /\ UNCHANGED <<ws, committed, main_pc, send_pc, cb_ran, frames_left, is_active>>
    /\ UNCHANGED NotSess

\* ws.recv() raised because the socket is closed: logged, finally, done.
RecvClosed ==
    /\ recv_pc = "r_recv"
    /\ ws # "open"
    /\ recv_pc' = "r_done"
    /\ UNCHANGED <<ws, committed, sent, main_pc, send_pc, cb_ran, frames_left,
                   inbound_left, is_active>>
    /\ UNCHANGED NotSess

\* The commit send of the receive loop completed: the flag is set.
RecvCommitDone ==
    /\ recv_pc = "r_commit"
    /\ committed' = TRUE
    /\ recv_pc' = RecvLoopNext(ws)
    /\ UNCHANGED <<ws, sent, main_pc, send_pc, cb_ran, frames_left, inbound_left, is_active>>
    /\ UNCHANGED NotSess

\* The commit send of the receive loop raised: logged, flag left unset.
RecvCommitRaise ==
    /\ recv_pc = "r_commit"
    /\ ws # "open"
    /\ recv_pc' = RecvLoopNext(ws)
    /\ UNCHANGED <<ws, committed, sent, main_pc, send_pc, cb_ran, frames_left,
                   inbound_left, is_active>>
    /\ UNCHANGED NotSess

\* A done callback that leaves the send task running, for comparison.
SenderLeftRunning(pc) == pc

\* _cancel_sender: "if not send_task.done(): send_task.cancel()".  The
\* cancelled task re-raises CancelledError from its await and is done.
SenderCancelled(pc) == IF pc = "s_done" THEN pc ELSE "s_done"

\* recv_task's done callback: cancel send_task unless it is done.
CancelSender ==
    /\ recv_pc = "r_done"
    /\ ~cb_ran
    /\ cb_ran' = TRUE
    /\ send_pc' = SenderCancelled(send_pc)
    /\ UNCHANGED <<ws, committed, sent, main_pc, recv_pc, frames_left, inbound_left, is_active>>
    /\ UNCHANGED NotSess

\* send_task is done (ended or cancelled): the finally clause calls
\* _send_realtime_commit; when that returns at once _close_websocket starts
\* ("await self.ws.close(code=1000, ...)").
MainAfterSend ==
    /\ main_pc = "m_await_send"
    /\ send_pc = "s_done"
    /\ IF sess_mode = "legacy" \/ CommitSkipped
       THEN /\ sent' = sent
            /\ ws' = "closed"
            /\ main_pc' = "m_close"
            /\ close_commit' = IF sess_mode = "legacy" THEN "none" ELSE "skipped"
       ELSE /\ sent' = Append(sent, "commit")
            /\ ws' = ws
            /\ main_pc' = "m_commit"
            /\ close_commit' = close_commit
    /\ UNCHANGED <<committed, send_pc, recv_pc, cb_ran, frames_left, inbound_left, is_active>>
    /\ UNCHANGED close_calls
    /\ UNCHANGED NotSessButClose

\* The commit send of the finally clause completed: flag set, then close.
MainCommitDone ==
    /\ main_pc = "m_commit"
    /\ committed' = TRUE
    /\ ws' = "closed"
    /\ main_pc' = "m_close"
    /\ close_commit' = "sent"
    /\ UNCHANGED <<sent, send_pc, recv_pc, cb_ran, frames_left, inbound_left, is_active>>
    /\ UNCHANGED close_calls
    /\ UNCHANGED NotSessButClose

\* The commit send of the finally clause raised: logged, then close.
MainCommitRaise ==
    /\ main_pc = "m_commit"
    /\ ws # "open"
    /\ ws' = "closed"
    /\ main_pc' = "m_close"
    /\ close_commit' = "failed"
    /\ UNCHANGED <<committed, sent, send_pc, recv_pc, cb_ran, frames_left,
                   inbound_left, is_active>>
    /\ UNCHANGED close_calls
    /\ UNCHANGED NotSessButClose

\* One returned call of _close_websocket: whether self.ws was set, the code
\* given to ws.close, whether the close raised, and the commit step before it.
CloseCall(held, code, error, commit) ==
    [held |-> held, code |-> code, error |-> error, commit |-> commit]

\* A later call that no longer finds self.ws unset, for comparison.
CloseFindsNothingNever(w) == FALSE

\* "if not self.ws: return"
CloseFindsNothing(w) == w \in {"unset", "cleared"}

\* _close_websocket: ws.close(code=1000) and wait_closed() returned; the
\* finally clause sets self.ws = None and the coroutine awaits recv_task.
MainCloseDone ==
    /\ main_pc = "m_close"
    /\ ws' = "cleared"
    /\ main_pc' = "m_await_recv"
    /\ close_calls' = Append(close_calls, CloseCall(TRUE, 1000, FALSE, close_commit))
    /\ UNCHANGED <<committed, sent, send_pc, recv_pc, cb_ran, frames_left,
                   inbound_left, is_active>>
    /\ UNCHANGED close_commit
    /\ UNCHANGED NotSessButClose

\* _close_websocket: ws.close or wait_closed raised; the error is logged,
\* the finally clause sets self.ws = None and the coroutine goes on.
MainCloseError ==
    /\ main_pc = "m_close"
    /\ ws' = "cleared"
    /\ main_pc' = "m_await_recv"
    /\ close_calls' = Append(close_calls, CloseCall(TRUE, 1000, TRUE, close_commit))
    /\ UNCHANGED <<committed, sent, send_pc, recv_pc, cb_ran, frames_left,
                   inbound_left, is_active>>
    /\ UNCHANGED close_commit
    /\ UNCHANGED NotSessButClose

\* _close_websocket is called again after it returned.  With self.ws unset
\* it returns at once; otherwise it closes as the first call did.
MainCloseAgain ==
    /\ main_pc \in {"m_await_recv", "m_returned"}
    /\ close_calls # <<>>
    /\ Len(close_calls) < MaxCloseCalls
    /\ close_calls' = Append(close_calls,
            IF CloseFindsNothing(ws)
            THEN CloseCall(FALSE, 0, FALSE, close_commit)
            ELSE CloseCall(TRUE, 1000, FALSE, close_commit))
    /\ ws' = "cleared"
    /\ UNCHANGED <<committed, sent, main_pc, send_pc, recv_pc, cb_ran, frames_left,
                   inbound_left, is_active>>
    /\ UNCHANGED close_commit
    /\ UNCHANGED NotSessButClose

\* recv_task is done: start_openai_agent_realtime returns.
MainReturn ==
    /\ main_pc = "m_await_recv"
    /\ recv_pc = "r_done"
    /\ main_pc' = "m_returned"
    /\ UNCHANGED <<ws, committed, sent, send_pc, recv_pc, cb_ran, frames_left,
                   inbound_left, is_active>>
    /\ UNCHANGED NotSess

\* The provider closes its end of the socket.
ProviderClose ==
    /\ ws = "open"
    /\ ws' = "closed"
    /\ UNCHANGED <<committed, sent, main_pc, send_pc, recv_pc, cb_ran, frames_left,
                   inbound_left, is_active>>
    /\ UNCHANGED NotSess

\* The call disconnects (the far end hangs up or the SIP stack ends the
\* call): onCallState sees DISCONNECTED and AudioCallback.stop() marks the
\* bridge inactive.  Nothing in Call asks for this: Call never hangs up.
SessBridgeStop ==
    /\ is_active
    /\ is_active' = FALSE
    /\ call_state' = "disconnected"
    /\ UNCHANGED SessVars
    /\ UNCHANGED <<FrameVars, BridgeVars, RecvVars, SendVars, RetryVars, AuthVars, sess_mode, CloseVars, CallVars, TimerVars, CorrVars, DrainVars, ReconVars>>

(***************************************************************************)
(* AudioCallback: the per-call bridge.  putFrame and onFrameRequested run  *)
(* on telephony threads, queue_playback_frame on the provider thread (its  *)
(* puts on an executor thread), _capture_queue_get on an executor thread   *)
(* and stop() on the thread that delivers the call state.  The two         *)
(* directions share only is_active, _stop_event and stop(); a run of the   *)
(* model carries audio in one direction, dir.                              *)
(***************************************************************************)
Dirs == {"capture", "playback"}

\* A queue that takes one entry more than maxsize, for comparison.
QueueFullOffByOne(q) == Len(q) > MAX_PENDING_FRAMES

\* queue.Queue(maxsize=MAX_PENDING_FRAMES): put raises queue.Full when full.
QueueFull(q) == Len(q) >= MAX_PENDING_FRAMES

\* "with contextlib.suppress(queue.Full): q.put_nowait(data)"
PutNowait(q, data) == IF QueueFull(q) THEN q ELSE Append(q, data)

\* queue.Queue.get: the oldest entry.
QueueGet(q) == Head(q)

\* _blocking_put gives up waiting: "while self.is_active" is false, or the
\* put timed out and "self._stop_event.is_set()".
PutGivesUp == ~is_active \/ stop_event

BridgeInit ==
    /\ dir \in Dirs
    /\ stop_event = FALSE
    /\ capture_queue = <<>>
    /\ playback_queue = <<>>
    /\ capture_buffer = <<>>
    /\ playback_buffer = <<>>
    /\ audio_dropouts = 0
    /\ cap_pc = "idle"
    /\ cap_chunk = <<>>
    /\ cap_seen = 0
    /\ cap_timeouts = 0
    /\ pp_pc = "idle"
    /\ pp_chunk = <<>>
    /\ pb_seen = 0
    /\ ofr_pc = "idle"
    /\ ofr_chunk = <<>>
    /\ stop_pc = "idle"
    /\ stop_chunk = <<>>
    /\ stop_calls = 0
    /\ cap_made = <<>>
    /\ cap_got = <<>>
    /\ pb_out = <<>>
    /\ dropped = 0

BridgeIdle ==
    /\ dir = "none"
    /\ stop_event = FALSE
    /\ capture_queue = <<>>
    /\ playback_queue = <<>>
    /\ capture_buffer = <<>>
    /\ playback_buffer = <<>>
    /\ audio_dropouts = 0
    /\ cap_pc = "idle"
    /\ cap_chunk = <<>>
    /\ cap_seen = 0
    /\ cap_timeouts = 0
    /\ pp_pc = "idle"
    /\ pp_chunk = <<>>
    /\ pb_seen = 0
    /\ ofr_pc = "idle"
    /\ ofr_chunk = <<>>
    /\ stop_pc = "idle"
    /\ stop_chunk = <<>>
    /\ stop_calls = 0
    /\ cap_made = <<>>
    /\ cap_got = <<>>
    /\ pb_out = <<>>
    /\ dropped = 0

(* ---- capture: putFrame ------------------------------------------------ *)

\* putFrame with an audio frame of n > 0 bytes while the bridge is active:
\* the bytes are appended to _capture_buffer.
PutFrame(n) ==
    /\ dir = "capture"
    /\ cap_pc = "idle"
    /\ is_active
    /\ cap_seen + n <= MaxCapBytes
    /\ capture_buffer' = capture_buffer \o NextBytes(cap_seen, n)
    /\ cap_seen' = cap_seen + n
    /\ cap_pc' = "loop"
    /\ UNCHANGED <<capture_queue, cap_chunk, cap_timeouts, cap_made, cap_got>>
    /\ UNCHANGED <<dir, PlaybackVars, StopVars, audio_dropouts, dropped, is_active>>
    /\ UNCHANGED NotBridge

\* One test of "while len(self._capture_buffer) >= FRAME_BYTES": slice a
\* chunk and enter _blocking_put, or return from putFrame.
PutFrameLoop ==
    /\ cap_pc = "loop"
    /\ IF HasFrame(capture_buffer)
       THEN /\ cap_chunk' = SliceChunk(capture_buffer)
            /\ capture_buffer' = DelChunk(capture_buffer)
            /\ cap_made' = Append(cap_made, SliceChunk(capture_buffer))
            /\ cap_pc' = "put"
       ELSE /\ cap_pc' = "idle"
            /\ UNCHANGED <<cap_chunk, capture_buffer, cap_made>>
    /\ cap_timeouts' = 0
    /\ UNCHANGED <<capture_queue, cap_seen, cap_got>>
    /\ UNCHANGED <<dir, PlaybackVars, StopVars, audio_dropouts, dropped, is_active>>
    /\ UNCHANGED NotBridge

\* _blocking_put(capture_queue, chunk): the put finds room.
CapPutEnqueue ==
    /\ cap_pc = "put"
    /\ ~QueueFull(capture_queue)
    /\ capture_queue' = Append(capture_queue, cap_chunk)
    /\ cap_pc' = "loop"
    /\ UNCHANGED <<capture_buffer, cap_chunk, cap_seen, cap_timeouts, cap_made, cap_got>>
    /\ UNCHANGED <<dir, PlaybackVars, StopVars, audio_dropouts, dropped, is_active>>
    /\ UNCHANGED NotBridge

\* _blocking_put(capture_queue, chunk): put(timeout=0.1) raised queue.Full
\* while the bridge is active and not stopping: the loop tries again.
CapPutTimeout ==
    /\ cap_pc = "put"
    /\ QueueFull(capture_queue)
    /\ ~PutGivesUp
    /\ cap_timeouts' = Min(cap_timeouts + 1, MaxPutTimeouts + 1)
    /\ UNCHANGED <<capture_queue, capture_buffer, cap_pc, cap_chunk, cap_seen,
                   cap_made, cap_got>>
    /\ UNCHANGED <<dir, PlaybackVars, StopVars, audio_dropouts, dropped, is_active>>
    /\ UNCHANGED NotBridge

\* _blocking_put(capture_queue, chunk): the loop is left with the queue
\* still full and put_nowait's queue.Full is suppressed: the chunk is gone.
CapPutDrop ==
    /\ cap_pc = "put"
    /\ QueueFull(capture_queue)
    /\ PutGivesUp
    /\ dropped' = dropped + 1
    /\ cap_pc' = "loop"
    /\ UNCHANGED <<capture_queue, capture_buffer, cap_chunk, cap_seen, cap_timeouts,
                   cap_made, cap_got>>
    /\ UNCHANGED <<dir, PlaybackVars, StopVars, audio_dropouts, is_active>>
    /\ UNCHANGED NotBridge

(* ---- capture: get_capture_frame / _capture_queue_get ------------------ *)

\* get(timeout=0.1) returned the oldest entry (a frame, or stop()'s b'').
CaptureGet ==
    /\ dir = "capture"
    /\ Len(cap_got) < MaxGets
    /\ capture_queue # <<>>
    /\ cap_got' = Append(cap_got, QueueGet(capture_queue))
    /\ capture_queue' = Tail(capture_queue)
    /\ UNCHANGED <<capture_buffer, cap_pc, cap_chunk, cap_seen, cap_timeouts, cap_made>>
    /\ UNCHANGED <<dir, PlaybackVars, StopVars, audio_dropouts, dropped, is_active>>
    /\ UNCHANGED NotBridge

\* The bridge is inactive and the queue is empty: b'' is returned.
CaptureGetEmpty ==
    /\ dir = "capture"
    /\ Len(cap_got) < MaxGets
    /\ capture_queue = <<>>
    /\ ~is_active
    /\ cap_got' = Append(cap_got, <<>>)
    /\ UNCHANGED <<capture_queue, capture_buffer, cap_pc, cap_chunk, cap_seen,
                   cap_timeouts, cap_made>>
    /\ UNCHANGED <<dir, PlaybackVars, StopVars, audio_dropouts, dropped, is_active>>
    /\ UNCHANGED NotBridge

(* ---- playback: queue_playback_frame ---------------------------------- *)

\* queue_playback_frame(data) with n > 0 bytes: _playback_buffer.extend.
QueuePlayback(n) ==
    /\ dir = "playback"
    /\ pp_pc = "idle"
    /\ pb_seen + n <= MaxPbBytes
    /\ playback_buffer' = playback_buffer \o NextBytes(pb_seen, n)
    /\ pb_seen' = pb_seen + n
    /\ pp_pc' = "check"
    /\ UNCHANGED <<playback_queue, pp_chunk, ofr_pc, ofr_chunk, pb_out>>
    /\ UNCHANGED <<dir, CaptureVars, StopVars, audio_dropouts, dropped, is_active>>
    /\ UNCHANGED NotBridge

\* "while len(self._playback_buffer) >= FRAME_BYTES"
QueuePlaybackCheck ==
    /\ pp_pc = "check"
    /\ pp_pc' = IF HasFrame(playback_buffer) THEN "slice" ELSE "idle"
    /\ UNCHANGED <<playback_queue, playback_buffer, pp_chunk, pb_seen, ofr_pc,
                   ofr_chunk, pb_out>>
    /\ UNCHANGED <<dir, CaptureVars, StopVars, audio_dropouts, dropped, is_active>>
    /\ UNCHANGED NotBridge

\* "chunk = bytes(self._playback_buffer[:FRAME_BYTES])"
QueuePlaybackSlice ==
    /\ pp_pc = "slice"
    /\ pp_chunk' = SliceChunk(playback_buffer)
    /\ pp_pc' = "del"
    /\ UNCHANGED <<playback_queue, playback_buffer, pb_seen, ofr_pc, ofr_chunk,
                   pb_out>>
    /\ UNCHANGED <<dir, CaptureVars, StopVars, audio_dropouts, dropped, is_active>>
    /\ UNCHANGED NotBridge

\* "del self._playback_buffer[:FRAME_BYTES]"
QueuePlaybackDel ==
    /\ pp_pc = "del"
    /\ playback_buffer' = DelChunk(playback_buffer)
    /\ pp_pc' = "put"
    /\ UNCHANGED <<playback_queue, pp_chunk, pb_seen, ofr_pc, ofr_chunk, pb_out>>
    /\ UNCHANGED <<dir, CaptureVars, StopVars, audio_dropouts, dropped, is_active>>
    /\ UNCHANGED NotBridge

\* _blocking_put(playback_queue, chunk) on the executor: the put finds room.
PbPutEnqueue ==
    /\ pp_pc = "put"
    /\ ~QueueFull(playback_queue)
    /\ playback_queue' = Append(playback_queue, pp_chunk)
    /\ pp_pc' = "check"
    /\ UNCHANGED <<playback_buffer, pp_chunk, pb_seen, ofr_pc, ofr_chunk, pb_out>>
    /\ UNCHANGED <<dir, CaptureVars, StopVars, audio_dropouts, dropped, is_active>>
    /\ UNCHANGED NotBridge

\* _blocking_put(playback_queue, chunk): the loop is left with the queue
\* still full and put_nowait's queue.Full is suppressed: the chunk is gone.
\* (While the bridge is active a put on a full queue only waits.)
PbPutDrop ==
    /\ pp_pc = "put"
    /\ QueueFull(playback_queue)
    /\ PutGivesUp
    /\ dropped' = dropped + 1
    /\ pp_pc' = "check"
    /\ UNCHANGED <<dir, CaptureVars, PlaybackVarsButPc, StopVars, audio_dropouts, is_active>>
    /\ UNCHANGED NotBridge

(* ---- playback: flush_playback at the end of a receive loop ------------ *)

\* How flush_playback can have returned: with nothing to flush, with the
\* residual frame put into the queue, or with the put given up.
FlushEnded == {"ended_empty", "ended_queued", "ended_dropped"}

\* "data = self._normalize_chunk(bytes(self._playback_buffer))"
flush_data(data) == normalize_chunk(data)

\* The receive loop has ended (socket closed, or an error out of recv) and
\* its finally block calls flush_playback: "if not self._playback_buffer:
\* return", otherwise the buffer is copied and normalised into data.
FlushPlayback ==
    /\ dir = "playback"
    /\ pp_pc = "idle"
    /\ IF playback_buffer = <<>>
       THEN /\ pp_pc' = "ended_empty"
            /\ pp_chunk' = pp_chunk
       ELSE /\ pp_pc' = "fl_clear"
            /\ pp_chunk' = flush_data(playback_buffer)
    /\ UNCHANGED <<playback_queue, playback_buffer, pb_seen, ofr_pc, ofr_chunk, pb_out>>
    /\ UNCHANGED <<dir, CaptureVars, StopVars, audio_dropouts, dropped, is_active>>
    /\ UNCHANGED NotBridge

\* flush_playback: "self._playback_buffer.clear()"
FlushClear ==
    /\ pp_pc = "fl_clear"
    /\ playback_buffer' = <<>>
    /\ pp_pc' = "fl_put"
    /\ UNCHANGED <<playback_queue, pp_chunk, pb_seen, ofr_pc, ofr_chunk, pb_out>>
    /\ UNCHANGED <<dir, CaptureVars, StopVars, audio_dropouts, dropped, is_active>>
    /\ UNCHANGED NotBridge

\* flush_playback: _blocking_put(playback_queue, data) on the executor
\* finds room.
FlushEnqueue ==
    /\ pp_pc = "fl_put"
    /\ ~QueueFull(playback_queue)
    /\ playback_queue' = Append(playback_queue, pp_chunk)
    /\ pp_pc' = "ended_queued"
    /\ UNCHANGED <<playback_buffer, pp_chunk, pb_seen, ofr_pc, ofr_chunk, pb_out>>
    /\ UNCHANGED <<dir, CaptureVars, StopVars, audio_dropouts, dropped, is_active>>
    /\ UNCHANGED NotBridge

\* flush_playback: _blocking_put leaves its loop with the queue still full
\* and put_nowait's queue.Full is suppressed: the residual frame is gone.
FlushDrop ==
    /\ pp_pc = "fl_put"
    /\ QueueFull(playback_queue)
    /\ PutGivesUp
    /\ dropped' = dropped + 1
    /\ pp_pc' = "ended_dropped"
    /\ UNCHANGED <<dir, CaptureVars, PlaybackVarsButPc, StopVars, audio_dropouts, is_active>>
    /\ UNCHANGED NotBridge

(* ---- playback: onFrameRequested --------------------------------------- *)

\* onFrameRequested on an inactive bridge: the frame is typed NONE and is
\* empty.
FrameRequestedInactive ==
    /\ dir = "playback"
    /\ ofr_pc = "idle"
    /\ ~is_active
    /\ Len(pb_out) < MaxPulls
    /\ pb_out' = Append(pb_out, [src |-> "inactive", buf |-> <<>>])
    /\ UNCHANGED <<playback_queue, playback_buffer, pp_pc, pp_chunk, pb_seen, ofr_pc,
                   ofr_chunk>>
    /\ UNCHANGED <<dir, CaptureVars, StopVars, audio_dropouts, dropped, is_active>>
    /\ UNCHANGED NotBridge

\* get(timeout=FRAME_DURATION/1000) returned a non-empty chunk, which is
\* normalised and handed to the telephony side.
FrameRequestedQueued ==
    /\ dir = "playback"
    /\ ofr_pc = "idle"
    /\ is_active
    /\ Len(pb_out) < MaxPulls
    /\ playback_queue # <<>>
    /\ QueueGet(playback_queue) # <<>>
    /\ playback_queue' = Tail(playback_queue)
    /\ pb_out' = Append(pb_out, [src |-> "queue",
                                 buf |-> normalize_chunk(QueueGet(playback_queue))])
    /\ UNCHANGED <<playback_buffer, pp_pc, pp_chunk, pb_seen, ofr_pc, ofr_chunk>>
    /\ UNCHANGED <<dir, CaptureVars, StopVars, audio_dropouts, dropped, is_active>>
    /\ UNCHANGED NotBridge

\* The get timed out on an empty queue, or returned an empty entry: chunk
\* is b'' and the partial buffer is looked at next.
FrameRequestedNothing ==
    /\ dir = "playback"
    /\ ofr_pc = "idle"
    /\ is_active
    /\ Len(pb_out) < MaxPulls
    /\ playback_queue # <<>> => QueueGet(playback_queue) = <<>>
    /\ playback_queue' = IF playback_queue = <<>> THEN <<>> ELSE Tail(playback_queue)
    /\ ofr_pc' = "buffer"
    /\ UNCHANGED <<playback_buffer, pp_pc, pp_chunk, pb_seen, ofr_chunk, pb_out>>
    /\ UNCHANGED <<dir, CaptureVars, StopVars, audio_dropouts, dropped, is_active>>
    /\ UNCHANGED NotBridge

\* "if not chunk and self._playback_buffer": the buffer is copied and
\* normalised, or, when it is empty, silence is handed out.
FrameRequestedBuffer ==
    /\ ofr_pc = "buffer"
    /\ IF playback_buffer # <<>>
       THEN /\ ofr_chunk' = normalize_chunk(playback_buffer)
            /\ ofr_pc' = "clear"
            /\ pb_out' = pb_out
       ELSE /\ ofr_chunk' = ofr_chunk
            /\ ofr_pc' = "idle"
            /\ pb_out' = Append(pb_out, [src |-> "silence",
                                         buf |-> normalize_chunk(<<>>)])
    /\ UNCHANGED <<playback_queue, playback_buffer, pp_pc, pp_chunk, pb_seen>>
    /\ UNCHANGED <<dir, CaptureVars, StopVars, audio_dropouts, dropped, is_active>>
    /\ UNCHANGED NotBridge

\* "self._playback_buffer.clear()", then the copy is handed out.
FrameRequestedClear ==
    /\ ofr_pc = "clear"
    /\ playback_buffer' = <<>>
    /\ pb_out' = Append(pb_out, [src |-> "buffer", buf |-> normalize_chunk(ofr_chunk)])
    /\ ofr_pc' = "idle"
    /\ UNCHANGED <<playback_queue, pp_pc, pp_chunk, pb_seen, ofr_chunk>>
    /\ UNCHANGED <<dir, CaptureVars, StopVars, audio_dropouts, dropped, is_active>>
    /\ UNCHANGED NotBridge

(* ---- stop() ----------------------------------------------------------- *)

\* A stop() without the test of is_active, for comparison.
StopReturnsNever == FALSE

\* "if not self.is_active: return" at the top of stop().
StopReturnsAtOnce == ~is_active

\* stop() is called.  On an inactive bridge it returns at once; otherwise
\* it enters _flush_playback_sync, where a non-empty _playback_buffer is
\* normalised into data.
StopCall ==
    /\ dir \in Dirs
    /\ stop_pc = "idle"
    /\ stop_calls < MaxStopCalls
    /\ stop_calls' = stop_calls + 1
    /\ IF StopReturnsAtOnce
       THEN UNCHANGED <<stop_chunk, stop_pc>>
       ELSE IF playback_buffer # <<>>
            THEN /\ stop_chunk' = normalize_chunk(playback_buffer)
                 /\ stop_pc' = "clear"
            ELSE /\ stop_chunk' = stop_chunk
                 /\ stop_pc' = "finish"
    /\ UNCHANGED <<dir, CaptureVars, PlaybackVars, stop_event, audio_dropouts,
                   dropped, is_active>>
    /\ UNCHANGED NotBridge

\* _flush_playback_sync: self._playback_buffer.clear()
StopFlushClear ==
    /\ stop_pc = "clear"
    /\ playback_buffer' = <<>>
    /\ stop_pc' = "put"
    /\ UNCHANGED <<playback_queue, pp_pc, pp_chunk, pb_seen, ofr_pc, ofr_chunk,
                   pb_out>>
    /\ UNCHANGED <<dir, CaptureVars, stop_event, stop_chunk, stop_calls, audio_dropouts,
                   dropped, is_active>>
    /\ UNCHANGED NotBridge

\* _flush_playback_sync: _blocking_put(playback_queue, data) finds room.
\* (is_active is still true here, so on a full queue this put keeps waiting.)
StopFlushEnqueue ==
    /\ stop_pc = "put"
    /\ ~QueueFull(playback_queue)
    /\ playback_queue' = Append(playback_queue, stop_chunk)
    /\ stop_pc' = "finish"
    /\ UNCHANGED <<playback_buffer, pp_pc, pp_chunk, pb_seen, ofr_pc, ofr_chunk, pb_out>>
    /\ UNCHANGED <<dir, CaptureVars, stop_event, stop_chunk, stop_calls, audio_dropouts,
                   dropped, is_active>>
    /\ UNCHANGED NotBridge

\* The rest of stop(): is_active = False, _stop_event.set(), and b'' is
\* put_nowait into both queues, a full queue being skipped.
StopFinish ==
    /\ stop_pc = "finish"
    /\ is_active' = FALSE
    /\ stop_event' = TRUE
    /\ capture_queue' = PutNowait(capture_queue, <<>>)
    /\ playback_queue' = PutNowait(playback_queue, <<>>)
    /\ stop_pc' = "idle"
    /\ UNCHANGED <<capture_buffer, cap_pc, cap_chunk, cap_seen, cap_timeouts,
                   cap_made, cap_got>>
    /\ UNCHANGED <<playback_buffer, pp_pc, pp_chunk, pb_seen, ofr_pc, ofr_chunk, pb_out>>
    /\ UNCHANGED <<dir, stop_chunk, stop_calls, audio_dropouts, dropped>>
    /\ UNCHANGED NotBridge

(***************************************************************************)
(* The realtime receive loops, one inbound message at a time:              *)
(* Call.receive_audio_from_openai_realtime (agent.py) and                  *)
(* OpenAIAgent._receive_audio_realtime (openai_agent.py).                   *)
(*                                                                         *)
(* base64 is modelled at reduced scale: the alphabet has two characters,   *)
(* a byte is written as two of them, and 9 stands for any character        *)
(* outside the alphabet.                                                   *)
(***************************************************************************)
B64Alphabet == {0, 1}

B64Radix == Cardinality(B64Alphabet)

DeltaChars == B64Alphabet \cup {9}

\* The bytes a delta string can carry.
B64Byte == 0..(B64Radix * B64Radix - 1)

\* An encoder that writes the two characters of a byte the wrong way
\* round, for comparison.
b64encode_reversed(data) ==
    Concat([i \in 1..Len(data) |-> <<data[i] % B64Radix, data[i] \div B64Radix>>])

\* base64.b64encode(data).decode('utf-8')
b64encode(data) ==
    Concat([i \in 1..Len(data) |-> <<data[i] \div B64Radix, data[i] % B64Radix>>])

\* A decoder that swaps the two characters of a byte, for comparison.
b64decode_swapped(str) ==
    LET data == SelectSeq(str, LAMBDA c : c \in B64Alphabet)
    IN IF Len(data) % 2 # 0
       THEN [ok |-> FALSE, bytes |-> <<>>]
       ELSE [ok |-> TRUE,
             bytes |-> [i \in 1..(Len(data) \div 2) |->
                           data[2 * i] * B64Radix + data[2 * i - 1]]]

\* base64.b64decode(str) with validate=False, the default: characters
\* outside the alphabet are discarded, then an incomplete group raises
\* binascii.Error (ok = FALSE), else the groups are decoded.
b64decode(str) ==
    LET data == SelectSeq(str, LAMBDA c : c \in B64Alphabet)
    IN IF Len(data) % 2 # 0
       THEN [ok |-> FALSE, bytes |-> <<>>]
       ELSE [ok |-> TRUE,
             bytes |-> [i \in 1..(Len(data) \div 2) |->
                           data[2 * i - 1] * B64Radix + data[2 * i]]]

\* str is base64 text: the encoding of some bytes.
IsBase64(str) ==
    /\ \A i \in 1..Len(str) : str[i] \in B64Alphabet
    /\ Len(str) % 2 = 0

\* What ws.recv() can return.  raw: "empty" (''), "text" (a string that is
\* not JSON), "binary" (bytes that are not UTF-8), "json".  For JSON, type
\* is the value of "type" ("nonobject": the JSON value is not an object),
\* dkind tells whether "delta" is absent, null or a string, and delta is
\* the string.
RxMsg(raw, type, dkind, delta) ==
    [raw |-> raw, type |-> type, dkind |-> dkind, delta |-> delta]

RxMessages ==
    {RxMsg(r, "none", "absent", <<>>) : r \in {"empty", "text", "binary"}}
    \cup {RxMsg("json", t, "absent", <<>>) :
             t \in {"nonobject", "response.output_audio.delta",
                    "response.completed", "error", "session.created"}}
    \cup {RxMsg("json", "response.output_audio.delta", "null", <<>>)}
    \cup {RxMsg("json", "response.output_audio.delta", "string", d) :
             d \in SeqsUpTo(DeltaChars, MaxDeltaLen)}

\* The outcome of one iteration: the byte strings handed to the playback
\* path, whether _send_realtime_commit was called, and where the loop is.
RxOutcome(handed, commit, pc) == [handed |-> handed, commit |-> commit, pc |-> pc]

RxSkip == RxOutcome(<<>>, FALSE, "recv")

RxEnd == RxOutcome(<<>>, FALSE, "done")

\* The delta branch: b64decode, then queue_playback_frame / playback_audio;
\* an exception of the decode is logged and the loop goes on.
RxDelta(msg) ==
    IF msg.dkind = "null" THEN RxSkip
    ELSE IF b64decode(msg.delta).ok
         THEN RxOutcome(<<b64decode(msg.delta).bytes>>, FALSE, "recv")
         ELSE RxSkip

\* A message of type error: Call has no branch for it; OpenAIAgent logs
\* it and breaks.
RxOnError(impl) == IF impl = "agent" THEN RxEnd ELSE RxSkip

\* One iteration of the loop body on message msg.
RxHandle(impl, msg) ==
    IF msg.raw = "empty" THEN RxSkip
    ELSE IF msg.raw = "text" THEN RxSkip
    ELSE IF msg.raw = "binary"
         THEN (IF impl = "call" THEN RxSkip ELSE RxEnd)
    ELSE IF msg.type = "nonobject" THEN RxEnd
    ELSE IF msg.type = "response.output_audio.delta" /\ msg.dkind # "absent"
         THEN RxDelta(msg)
    ELSE IF msg.type = "response.completed"
         THEN RxOutcome(<<>>, impl = "call", "recv")
    ELSE IF msg.type = "error" THEN RxOnError(impl)
    ELSE RxSkip

RxInit ==
    /\ rx_impl \in {"call", "agent"}
    /\ rx_pc = "recv"
    /\ rx_count = 0
    /\ rx_last = [msg |-> RxMsg("none", "none", "absent", <<>>), out |-> RxSkip]
    /\ rx_error_seen = FALSE
    /\ rx_after_error = FALSE

RxIdle ==
    /\ rx_impl = "none"
    /\ rx_pc = "done"
    /\ rx_count = 0
    /\ rx_last = [msg |-> RxMsg("none", "none", "absent", <<>>), out |-> RxSkip]
    /\ rx_error_seen = FALSE
    /\ rx_after_error = FALSE

\* ws.recv() returns msg and the loop body runs on it.
RxReceive(msg) ==
    /\ rx_pc = "recv"
    /\ rx_count < MaxRx
    /\ rx_count' = rx_count + 1
    /\ rx_last' = [msg |-> msg, out |-> RxHandle(rx_impl, msg)]
    /\ rx_pc' = RxHandle(rx_impl, msg).pc
    /\ rx_error_seen' = (rx_error_seen \/ (msg.raw = "json" /\ msg.type = "error"))
    /\ rx_after_error' = (rx_after_error \/ rx_error_seen)
    /\ UNCHANGED rx_impl
    /\ UNCHANGED NotRecv

\* ws.recv() raises because the socket has been closed: the loop ends.
RxClosed ==
    /\ rx_pc = "recv"
    /\ rx_pc' = "done"
    /\ UNCHANGED <<rx_impl, rx_count, rx_last, rx_error_seen, rx_after_error>>
    /\ UNCHANGED NotRecv

(***************************************************************************)
(* The send loops, one capture frame at a time:                            *)
(* Call.send_audio_to_openai_realtime / _legacy (agent.py) and             *)
(* OpenAIAgent._send_audio_realtime / _legacy (openai_agent.py).            *)
(***************************************************************************)

\* What get_capture_frame can return: a frame, or the empty result.
TxFrames == [1..FRAME_BYTES -> B64Byte] \cup {<<>>}

\* A message written to the socket: a text message holding a JSON object
\* with "type" and "audio", or a binary message holding data.
TxText(type, audio) == [kind |-> "text", type |-> type, audio |-> audio, data |-> <<>>]

TxBinary(data) == [kind |-> "binary", type |-> "none", audio |-> <<>>, data |-> data]

\* The message for one frame.
TxMessage(mode, frame) ==
    IF mode = "realtime"
    THEN TxText("input_audio_buffer.append", b64encode(frame))
    ELSE TxBinary(frame)

\* The body of one iteration: "if not audio_chunk: ..." and
\* "if self.ws and not self.ws.closed: await self._ws_send(...)".
TxSent(mode, frame, open) ==
    IF frame = <<>> THEN <<>>
    ELSE IF open THEN <<TxMessage(mode, frame)>>
    ELSE <<>>

\* The loop test "while self.audio_callback.is_active" that follows.
TxLoopNext(active) == IF active THEN "get" ELSE "done"

TxInit ==
    /\ tx_impl \in {"call", "agent"}
    /\ tx_mode \in {"realtime", "legacy"}
    /\ tx_pc = "get"
    /\ tx_count = 0
    /\ tx_last = [frame |-> <<>>, open |-> TRUE, sent |-> <<>>]

TxIdle ==
    /\ tx_impl = "none"
    /\ tx_mode = "none"
    /\ tx_pc = "done"
    /\ tx_count = 0
    /\ tx_last = [frame |-> <<>>, open |-> TRUE, sent |-> <<>>]

\* get_capture_frame returns frame; the socket is open or not; the bridge
\* is active or not when the loop test is reached again.
TxIterate(frame, open, active) ==
    /\ tx_pc = "get"
    /\ tx_count < MaxTx
    /\ tx_count' = tx_count + 1
    /\ tx_last' = [frame |-> frame, open |-> open,
                   sent |-> TxSent(tx_mode, frame, open)]
    /\ tx_pc' = TxLoopNext(active)
    /\ UNCHANGED <<tx_impl, tx_mode>>
    /\ UNCHANGED NotSend

\* The task is cancelled while it waits for a frame.
TxCancelled ==
    /\ tx_pc = "get"
    /\ tx_pc' = "done"
    /\ UNCHANGED <<tx_impl, tx_mode, tx_count, tx_last>>
    /\ UNCHANGED NotSend

(***************************************************************************)
(* Retry schedulers: EndpointTimer, Call._schedule_invite_retry,           *)
(* Call._retry_invite, Account.onRegState,                                 *)
(* Account._schedule_registration_retry and Account._retry_registration.   *)
(* Delays are whole seconds at reduced scale.  The exponent from which     *)
(* float(2 ** k) raises OverflowError, 1024 in CPython, is scaled down     *)
(* with them and stays above SIP_INVITE_MAX_ATTEMPTS, as 1024 is above     *)
(* the default of 5.                                                       *)
(***************************************************************************)
SIP_REG_RETRY_BASE == 2

SIP_REG_RETRY_MAX == 5

SIP_INVITE_RETRY_BASE == 1

SIP_INVITE_RETRY_MAX == 3

SIP_INVITE_MAX_ATTEMPTS == 3

FLOAT_MAX_EXP == 4

\* Call-state and registration-state events the telephony stack delivers.
MaxCallEvents == 5

MaxRegEvents == 5

\* Callbacks of thread timers that may be waiting to run at one time.
MaxExpired == 1

\* lastStatusCode / regStatus values: none, success, and both edges of 4xx-5xx.
SipStatuses == {0, 200, 399, 400, 599, 600}

InvVars == <<invite_attempts, inv_timer, inv_expired, inv_call, inv_delays,
             inv_fails, inv_limit, inv_stops, inv_clean, inv_events, inv_ok,
             inv_late>>

RegVars == <<reg_retry_attempts, reg_timer, reg_expired, reg_delays,
             reg_events, reg_last, reg_ok, reg_late>>

NotRetry == <<FrameVars, SessVars, BridgeVars, RecvVars, SendVars, is_active, call_state,
    AuthVars, sess_mode,
    CloseVars,
    CallVars,
    TimerVars,
    CorrVars,
    DrainVars,
    ReconVars>>

RECURSIVE Pow2(_)
Pow2(k) == IF k = 0 THEN 1 ELSE 2 * Pow2(k - 1)

\* The delay without its cap.
backoff_uncapped(base, k, max_delay) == base * Pow2(k)

\* min(BASE * (2 ** attempts), MAX)
backoff_delay(base, k, max_delay) == Min(base * Pow2(k), max_delay)

\* BASE is a float, so 2 ** attempts is converted to one: OverflowError once
\* it no longer fits.
backoff_raises(k) == k >= FLOAT_MAX_EXP

\* 400 <= status < 600
is_failure_status(s) == 400 <= s /\ s < 600

\* The limit test with the boundary value let through.
InviteLimitPastBoundary(attempts) == attempts > SIP_INVITE_MAX_ATTEMPTS

\* self._invite_attempts >= SIP_INVITE_MAX_ATTEMPTS
InviteLimitReached(attempts) == attempts >= SIP_INVITE_MAX_ATTEMPTS

RetryInit ==
    /\ timer_impl \in {"native", "thread"}
    /\ target_uri \in {"uri", "none"}
    /\ invite_attempts = 0
    /\ inv_timer = "idle"
    /\ inv_expired = 0
    /\ inv_call = "dialing"
    /\ inv_delays = <<>>
    /\ inv_fails = 0
    /\ inv_limit = 0
    /\ inv_stops = 0
    /\ inv_clean = TRUE
    /\ inv_events = 0
    /\ inv_ok = FALSE
    /\ inv_late = FALSE
    /\ reg_retry_attempts = 0
    /\ reg_timer = "idle"
    /\ reg_expired = 0
    /\ reg_delays = <<>>
    /\ reg_events = 0
    /\ reg_last = [kind |-> "none", armed |-> FALSE]
    /\ reg_ok = FALSE
    /\ reg_late = FALSE

RetryIdle ==
    /\ timer_impl = "native"
    /\ target_uri = "none"
    /\ invite_attempts = 0
    /\ inv_timer = "idle"
    /\ inv_expired = 0
    /\ inv_call = "down"
    /\ inv_delays = <<>>
    /\ inv_fails = 0
    /\ inv_limit = 0
    /\ inv_stops = 0
    /\ inv_clean = TRUE
    /\ inv_events = 0
    /\ inv_ok = FALSE
    /\ inv_late = FALSE
    /\ reg_retry_attempts = 0
    /\ reg_timer = "idle"
    /\ reg_expired = 0
    /\ reg_delays = <<>>
    /\ reg_events = 0
    /\ reg_last = [kind |-> "none", armed |-> FALSE]
    /\ reg_ok = FALSE
    /\ reg_late = FALSE

\* Call._schedule_invite_retry.  timer is the state the caller left the timer
\* in; EndpointTimer.schedule cancels it and arms a new one.
schedule_invite_retry(timer) ==
    IF InviteLimitReached(invite_attempts)
    THEN /\ inv_limit' = inv_limit + 1
         /\ inv_stops' = inv_stops + 1
         /\ inv_timer' = timer
         /\ UNCHANGED <<invite_attempts, inv_delays>>
    ELSE IF backoff_raises(invite_attempts)
    THEN /\ inv_timer' = timer
         /\ UNCHANGED <<invite_attempts, inv_delays, inv_limit, inv_stops>>
    ELSE /\ inv_delays' = Append(inv_delays,
                backoff_delay(SIP_INVITE_RETRY_BASE, invite_attempts, SIP_INVITE_RETRY_MAX))
         /\ invite_attempts' = invite_attempts + 1
         /\ inv_timer' = "armed"
         /\ UNCHANGED <<inv_limit, inv_stops>>

\* Call.onCallState, PJSIP_INV_STATE_CONFIRMED: the counter is reset and
\* EndpointTimer.cancel is called.
OnCallConfirmed ==
    /\ inv_call = "dialing"
    /\ inv_events < MaxCallEvents
    /\ inv_events' = inv_events + 1
    /\ inv_call' = "up"
    /\ invite_attempts' = 0
    /\ inv_timer' = "idle"
    /\ inv_delays' = <<>>
    /\ inv_clean' = FALSE
    /\ inv_ok' = TRUE
    /\ UNCHANGED <<inv_expired, inv_fails, inv_limit, inv_stops, inv_late>>
    /\ UNCHANGED <<timer_impl, target_uri, RegVars>>
    /\ UNCHANGED NotRetry

\* Call.onCallState, PJSIP_INV_STATE_DISCONNECTED with lastStatusCode = status:
\* the timer is cancelled, and a retry is scheduled for an outbound call
\* whose status is in 400..599.
OnCallDisconnected(status) ==
    /\ inv_call \in {"dialing", "up"}
    /\ inv_events < MaxCallEvents
    /\ inv_events' = inv_events + 1
    /\ inv_call' = "down"
    /\ inv_ok' = FALSE
    /\ inv_clean' = (inv_clean /\ inv_call = "dialing" /\ is_failure_status(status))
    /\ inv_fails' = IF is_failure_status(status) THEN inv_fails + 1 ELSE inv_fails
    /\ IF target_uri = "uri" /\ status # 0 /\ is_failure_status(status)
       THEN schedule_invite_retry("idle")
       ELSE /\ inv_timer' = "idle"
            /\ UNCHANGED <<invite_attempts, inv_delays, inv_limit, inv_stops>>
    /\ UNCHANGED <<inv_expired, inv_late>>
    /\ UNCHANGED <<timer_impl, target_uri, RegVars>>
    /\ UNCHANGED NotRetry

\* threading.Timer.run finds its finished event unset: from here on
\* EndpointTimer.cancel no longer prevents the callback.
InvTimerExpire ==
    /\ timer_impl = "thread"
    /\ inv_timer = "armed"
    /\ inv_expired < MaxExpired
    /\ inv_timer' = "idle"
    /\ inv_expired' = inv_expired + 1
    /\ UNCHANGED <<invite_attempts, inv_call, inv_delays, inv_fails, inv_limit,
                   inv_stops, inv_clean, inv_events, inv_ok, inv_late>>
    /\ UNCHANGED <<timer_impl, target_uri, RegVars>>
    /\ UNCHANGED NotRetry

\* The callback of the invite timer is due: onTimeout of an armed native
\* timer, or _thread_timer_callback of an expired thread timer.
InvCallbackDue ==
    \/ timer_impl = "native" /\ inv_timer = "armed"
    \/ inv_expired > 0

InvTimerAfterFire == IF timer_impl = "native" THEN "idle" ELSE inv_timer

InvExpiredAfterFire == IF timer_impl = "native" THEN inv_expired ELSE inv_expired - 1

\* Call._retry_invite, makeCall returns: the INVITE is sent again.  Only an
\* outbound call ever arms the timer, so target_uri is set.
RetryInviteSent ==
    /\ InvCallbackDue
    /\ target_uri = "uri"
    /\ inv_timer' = InvTimerAfterFire
    /\ inv_expired' = InvExpiredAfterFire
    /\ inv_late' = (inv_late \/ inv_ok)
    /\ inv_call' = "dialing"
    /\ UNCHANGED <<invite_attempts, inv_delays, inv_fails, inv_limit, inv_stops,
                   inv_clean, inv_events, inv_ok>>
    /\ UNCHANGED <<timer_impl, target_uri, RegVars>>
    /\ UNCHANGED NotRetry

\* Call._retry_invite, makeCall raises: invite_retry_failed is logged and a
\* retry is scheduled only while invite_attempts < SIP_INVITE_MAX_ATTEMPTS.
RetryInviteRaised ==
    /\ InvCallbackDue
    /\ target_uri = "uri"
    /\ inv_expired' = InvExpiredAfterFire
    /\ inv_late' = (inv_late \/ inv_ok)
    /\ inv_clean' = FALSE
    /\ IF invite_attempts < SIP_INVITE_MAX_ATTEMPTS
       THEN schedule_invite_retry(InvTimerAfterFire)
       ELSE /\ inv_stops' = inv_stops + 1
            /\ inv_timer' = InvTimerAfterFire
            /\ UNCHANGED <<invite_attempts, inv_delays, inv_limit>>
    /\ UNCHANGED <<inv_call, inv_fails, inv_events, inv_ok>>
    /\ UNCHANGED <<timer_impl, target_uri, RegVars>>
    /\ UNCHANGED NotRetry

\* Account._schedule_registration_retry.  The delay is computed first; when
\* that raises, the counter and the timer stay as they were.
schedule_registration_retry(timer) ==
    IF backoff_raises(reg_retry_attempts)
    THEN /\ reg_timer' = timer
         /\ UNCHANGED <<reg_retry_attempts, reg_delays>>
    ELSE /\ reg_delays' = Append(reg_delays,
                backoff_delay(SIP_REG_RETRY_BASE, reg_retry_attempts, SIP_REG_RETRY_MAX))
         /\ reg_retry_attempts' = reg_retry_attempts + 1
         /\ reg_timer' = "armed"

\* Account.onRegState with regStatus = status.
OnRegState(status) ==
    /\ reg_events < MaxRegEvents
    /\ reg_events' = reg_events + 1
    /\ reg_ok' = (status = 200)
    /\ IF status = 200
       THEN /\ reg_retry_attempts' = 0
            /\ reg_timer' = "idle"
            /\ reg_delays' = <<>>
       ELSE IF is_failure_status(status)
       THEN schedule_registration_retry(reg_timer)
       ELSE UNCHANGED <<reg_retry_attempts, reg_timer, reg_delays>>
    /\ reg_last' = [kind |-> IF status = 200 THEN "success"
                             ELSE IF is_failure_status(status) THEN "failure"
                             ELSE "other",
                    armed |-> reg_timer' = "armed"]
    /\ UNCHANGED <<reg_expired, reg_late>>
    /\ UNCHANGED <<timer_impl, target_uri, InvVars>>
    /\ UNCHANGED NotRetry

\* threading.Timer.run of the registration timer finds its finished event unset.
RegTimerExpire ==
    /\ timer_impl = "thread"
    /\ reg_timer = "armed"
    /\ reg_expired < MaxExpired
    /\ reg_timer' = "idle"
    /\ reg_expired' = reg_expired + 1
    /\ UNCHANGED <<reg_retry_attempts, reg_delays, reg_events, reg_last, reg_ok, reg_late>>
    /\ UNCHANGED <<timer_impl, target_uri, InvVars>>
    /\ UNCHANGED NotRetry

RegCallbackDue ==
    \/ timer_impl = "native" /\ reg_timer = "armed"
    \/ reg_expired > 0

RegTimerAfterFire == IF timer_impl = "native" THEN "idle" ELSE reg_timer

RegExpiredAfterFire == IF timer_impl = "native" THEN reg_expired ELSE reg_expired - 1

\* Account._retry_registration, setRegistration(True) returns.
RetryRegistrationSent ==
    /\ RegCallbackDue
    /\ reg_timer' = RegTimerAfterFire
    /\ reg_expired' = RegExpiredAfterFire
    /\ reg_late' = (reg_late \/ reg_ok)
    /\ reg_last' = [kind |-> "sent", armed |-> reg_timer' = "armed"]
    /\ UNCHANGED <<reg_retry_attempts, reg_delays, reg_events, reg_ok>>
    /\ UNCHANGED <<timer_impl, target_uri, InvVars>>
    /\ UNCHANGED NotRetry

\* Account._retry_registration, setRegistration(True) raises: the handler
\* logs registration_retry_failed and schedules the next retry.
RetryRegistrationRaised ==
    /\ RegCallbackDue
    /\ reg_expired' = RegExpiredAfterFire
    /\ reg_late' = (reg_late \/ reg_ok)
    /\ schedule_registration_retry(RegTimerAfterFire)
    /\ reg_last' = [kind |-> "raised", armed |-> reg_timer' = "armed"]
    /\ UNCHANGED <<reg_events, reg_ok>>
    /\ UNCHANGED <<timer_impl, target_uri, InvVars>>
    /\ UNCHANGED NotRetry

(***************************************************************************)
(* Session tokens: AuthManager (auth.py) and the session helpers of        *)
(* Monitor (monitor.py).  Time is counted in whole ticks and the lifetime  *)
(* of a session is scaled down to SESSION_TTL ticks.  Token 0 stands for   *)
(* the empty or missing token; secrets.token_urlsafe never returns a       *)
(* token twice.                                                            *)
(***************************************************************************)
SESSION_TTL == 2

MaxTokens == 2

MaxNow == 4

Tokens == 1..MaxTokens

NotAuth == <<FrameVars, SessVars, BridgeVars, RecvVars, SendVars, RetryVars,
    is_active, call_state, sess_mode,
    CloseVars,
    CallVars,
    TimerVars,
    CorrVars,
    DrainVars,
    ReconVars>>

\* A session that never expires.
session_never_expired(now, expires_at) == FALSE

\* time.time() > session["expires_at"]  /  data["expires_at"] < time.time()
session_expired(now, expires_at) == now > expires_at

\* self.sessions[token] = {...}
SessionPut(store, token, expires_at) ==
    [t \in DOMAIN store \cup {token} |-> IF t = token THEN expires_at ELSE store[t]]

\* del self.sessions[token]  /  self._sessions.pop(session_id, None)
SessionDel(store, token) ==
    [t \in DOMAIN store \ {token} |-> store[t]]

AuthInit ==
    /\ sess_impl \in {"auth", "monitor"}
    /\ sess_now = 0
    /\ sessions = << >>
    /\ sess_issued = {}
    /\ sess_revoked = {}
    /\ sess_last = [op |-> "none"]

AuthIdle ==
    /\ sess_impl = "auth"
    /\ sess_now = 0
    /\ sessions = << >>
    /\ sess_issued = {}
    /\ sess_revoked = {}
    /\ sess_last = [op |-> "none"]

\* AuthManager.create_session / Monitor._create_session: a fresh token is
\* stored with expires_at = now + the lifetime.
CreateSession(token) ==
    /\ token \notin sess_issued
    /\ sessions' = SessionPut(sessions, token, sess_now + SESSION_TTL)
    /\ sess_issued' = sess_issued \cup {token}
    /\ sess_last' = [op |-> "create", token |-> token, now |-> sess_now,
                     before |-> sessions, result |-> "token"]
    /\ UNCHANGED <<sess_impl, sess_now, sess_revoked>>
    /\ UNCHANGED NotAuth

\* AuthManager.validate_session / Monitor._get_session.  An unknown or empty
\* token gives None; an expired session is deleted and gives None; otherwise
\* the session is returned, and Monitor moves its expiry to now + the lifetime.
ValidateSession(token) ==
    /\ LET known == token \in DOMAIN sessions
           expired == known /\ session_expired(sess_now, sessions[token])
       IN  /\ sessions' = IF ~known THEN sessions
                          ELSE IF expired THEN SessionDel(sessions, token)
                          ELSE IF sess_impl = "monitor"
                               THEN SessionPut(sessions, token, sess_now + SESSION_TTL)
                          ELSE sessions
           /\ sess_last' = [op |-> "validate", token |-> token, now |-> sess_now,
                            before |-> sessions,
                            result |-> IF known /\ ~expired THEN "session" ELSE "none"]
    /\ UNCHANGED <<sess_impl, sess_now, sess_issued, sess_revoked>>
    /\ UNCHANGED NotAuth

\* AuthManager.revoke_session returns whether it deleted the token;
\* Monitor._clear_session deletes it and returns nothing.
RevokeSession(token) ==
    /\ sessions' = IF token \in DOMAIN sessions THEN SessionDel(sessions, token)
                   ELSE sessions
    /\ sess_revoked' = IF token \in DOMAIN sessions THEN sess_revoked \cup {token}
                       ELSE sess_revoked
    /\ sess_last' = [op |-> "revoke", token |-> token, now |-> sess_now,
                     before |-> sessions,
                     result |-> IF sess_impl = "monitor" THEN "none"
                                ELSE IF token \in DOMAIN sessions THEN "true"
                                ELSE "false"]
    /\ UNCHANGED <<sess_impl, sess_now, sess_issued>>
    /\ UNCHANGED NotAuth

\* Time passes.
SessTick ==
    /\ sess_now < MaxNow
    /\ sess_now' = sess_now + 1
    /\ UNCHANGED <<sess_impl, sessions, sess_issued, sess_revoked, sess_last>>
    /\ UNCHANGED NotAuth

\* No call of _close_websocket yet.
CloseInit ==
    /\ close_commit = "pending"
    /\ close_calls = <<>>

(***************************************************************************)
(* One Call object through the call-state events of the telephony library  *)
(* (Call.onCallState, agent.py).  An invite session is set up, is          *)
(* confirmed or not, and is disconnected; an invite retry starts the next   *)
(* invite session on the same Call.  The DISCONNECTED branch is followed    *)
(* call by call, since it waits in three places while the provider thread   *)
(* runs on.                                                                *)
(***************************************************************************)
\* Call-state events delivered to one Call.
MaxCallRounds == 5

NotCall == <<FrameVars, SessVars, BridgeVars, RecvVars, SendVars, RetryVars, AuthVars,
             is_active, call_state, sess_mode, CloseVars,
    TimerVars,
    CorrVars,
    DrainVars,
    ReconVars>>

CallRoles == {"UAC", "UAS"}

\* A retry decision that does not look at the status class, for comparison.
retry_on_any_status(target, role, status) ==
    target = "uri" /\ role = "UAC" /\ status # 0

\* "if (self.target_uri and ci.role == pj.PJSIP_ROLE_UAC and status_code
\*      and 400 <= status_code < 600)"
retry_wanted(target, role, status) ==
    target = "uri" /\ role = "UAC" /\ status # 0 /\ is_failure_status(status)

\* A provider thread as _start_async_agent starts it.
NewWorker(mode) == [mode |-> mode, live |-> TRUE]

\* "if not ENABLE_AUDIO: ... return" in the CONFIRMED branch.
StartsAudio(audio) == audio

\* A handler that stops the bridge without the drain wait, for comparison.
DcSkipsDrain(bridges) == IF bridges # <<>> THEN "dc_stop" ELSE "dc_join"

\* "if self.audio_callback:" after the timer was cancelled: the drain wait
\* comes first, and without a bridge the handler goes on to the thread.
DcAfterCancel(bridges) == IF bridges # <<>> THEN "dc_drain" ELSE "dc_join"

\* The last entry of a non-empty sequence replaced.
SetLast(seq, v) == [seq EXCEPT ![Len(seq)] = v]

\* Account.make_outgoing_call creates the Call with target_uri and calls
\* makeCall (role UAC); Account.onIncomingCall creates it without and
\* answers (role UAS).
CallInit ==
    /\ cl_audio \in BOOLEAN
    /\ cl_mode \in SessModes
    /\ cl_role \in CallRoles
    /\ cl_target = (IF cl_role = "UAC" THEN "uri" ELSE "none")
    /\ cl_state = "setup"
    /\ cl_attempts = 0
    /\ cl_timer = "idle"
    /\ cl_bridges = <<>>
    /\ cl_workers = <<>>
    /\ cl_pc = "idle"
    /\ cl_status = 0
    /\ cl_log = <<>>
    /\ cl_events = 0
    /\ cl_last = [kind |-> "none", status |-> 0, attempts |-> 0, armed |-> FALSE]

CallIdle ==
    /\ cl_audio = FALSE
    /\ cl_mode = "realtime"
    /\ cl_role = "UAS"
    /\ cl_target = "none"
    /\ cl_state = "down"
    /\ cl_attempts = 0
    /\ cl_timer = "idle"
    /\ cl_bridges = <<>>
    /\ cl_workers = <<>>
    /\ cl_pc = "idle"
    /\ cl_status = 0
    /\ cl_log = <<>>
    /\ cl_events = 0
    /\ cl_last = [kind |-> "none", status |-> 0, attempts |-> 0, armed |-> FALSE]

\* onCallState, PJSIP_INV_STATE_CONFIRMED: the counter is reset, the timer
\* cancelled, and with audio enabled an AudioCallback is created and
\* connected and _start_async_agent starts the thread of the configured
\* mode.
CallConfirmed ==
    /\ cl_pc = "idle"
    /\ cl_state = "setup"
    /\ cl_events < MaxCallRounds
    /\ cl_events' = cl_events + 1
    /\ cl_state' = "up"
    /\ cl_attempts' = 0
    /\ cl_timer' = "idle"
    /\ IF StartsAudio(cl_audio)
       THEN /\ cl_bridges' = Append(cl_bridges, TRUE)
            /\ cl_workers' = Append(cl_workers, NewWorker(cl_mode))
       ELSE UNCHANGED <<cl_bridges, cl_workers>>
    /\ cl_last' = [cl_last EXCEPT !.kind = "confirmed"]
    /\ UNCHANGED <<cl_audio, cl_mode, cl_target, cl_role, cl_pc, cl_status, cl_log>>
    /\ UNCHANGED NotCall

\* The provider thread's coroutine returns or raises: the thread ends.
WorkerEnds ==
    /\ \E i \in 1..Len(cl_workers) :
          /\ cl_workers[i].live
          /\ cl_workers' = [cl_workers EXCEPT ![i].live = FALSE]
    /\ UNCHANGED <<cl_audio, cl_mode, cl_target, cl_role, cl_state, cl_attempts,
                   cl_timer, cl_bridges, cl_pc, cl_status, cl_log, cl_events, cl_last>>
    /\ UNCHANGED NotCall

\* onCallState, PJSIP_INV_STATE_DISCONNECTED with lastStatusCode = status:
\* "self._invite_retry_timer.cancel()", then "if self.audio_callback".
CallDisconnected(status) ==
    /\ cl_pc = "idle"
    /\ cl_state \in {"setup", "up"}
    /\ cl_events < MaxCallRounds
    /\ cl_events' = cl_events + 1
    /\ cl_state' = "down"
    /\ cl_status' = status
    /\ cl_timer' = "idle"
    /\ cl_log' = <<"cancel">>
    /\ cl_pc' = DcAfterCancel(cl_bridges)
    /\ cl_last' = [cl_last EXCEPT !.kind = "handling"]
    /\ UNCHANGED <<cl_audio, cl_mode, cl_target, cl_role, cl_attempts, cl_bridges,
                   cl_workers>>
    /\ UNCHANGED NotCall

\* "self.audio_callback.wait_for_playback_drain()": returns when the
\* playback side is empty, or after its timeout.
DcDrain ==
    /\ cl_pc = "dc_drain"
    /\ cl_log' = Append(cl_log, "drain")
    /\ cl_pc' = "dc_stop"
    /\ UNCHANGED <<cl_audio, cl_mode, cl_target, cl_role, cl_state, cl_attempts,
                   cl_timer, cl_bridges, cl_workers, cl_status, cl_events, cl_last>>
    /\ UNCHANGED NotCall

\* "self.audio_callback.stop()" returns: the bridge is inactive.
DcStop ==
    /\ cl_pc = "dc_stop"
    /\ cl_bridges' = SetLast(cl_bridges, FALSE)
    /\ cl_log' = Append(cl_log, "stop")
    /\ cl_pc' = "dc_join"
    /\ UNCHANGED <<cl_audio, cl_mode, cl_target, cl_role, cl_state, cl_attempts,
                   cl_timer, cl_workers, cl_status, cl_events, cl_last>>
    /\ UNCHANGED NotCall

\* "if self.openai_thread and self.openai_thread.is_alive():
\*      self.openai_thread.join(timeout=5)": the join returns when the thread
\* has ended or after five seconds, whichever is first.
DcJoin ==
    /\ cl_pc = "dc_join"
    /\ cl_log' = IF cl_workers # <<>> /\ cl_workers[Len(cl_workers)].live
                 THEN Append(cl_log, "join") ELSE cl_log
    /\ \E ended \in BOOLEAN :
          cl_workers' = IF cl_workers # <<>> /\ cl_workers[Len(cl_workers)].live /\ ended
                        THEN SetLast(cl_workers, [cl_workers[Len(cl_workers)] EXCEPT !.live = FALSE])
                        ELSE cl_workers
    /\ cl_pc' = "dc_decide"
    /\ UNCHANGED <<cl_audio, cl_mode, cl_target, cl_role, cl_state, cl_attempts,
                   cl_timer, cl_bridges, cl_status, cl_events, cl_last>>
    /\ UNCHANGED NotCall

\* The end of the DISCONNECTED branch: the retry test, and
\* _schedule_invite_retry with its limit test.
DcDecide ==
    /\ cl_pc = "dc_decide"
    /\ cl_pc' = "idle"
    /\ IF retry_wanted(cl_target, cl_role, cl_status) /\ ~InviteLimitReached(cl_attempts)
       THEN /\ cl_attempts' = cl_attempts + 1
            /\ cl_timer' = "armed"
            /\ cl_log' = Append(cl_log, "retry")
       ELSE UNCHANGED <<cl_attempts, cl_timer, cl_log>>
    /\ cl_last' = [kind |-> "decided", status |-> cl_status,
                   attempts |-> cl_attempts, armed |-> (cl_timer' = "armed")]
    /\ UNCHANGED <<cl_audio, cl_mode, cl_target, cl_role, cl_state, cl_bridges,
                   cl_workers, cl_status, cl_events>>
    /\ UNCHANGED NotCall

\* The retry timer fires and _retry_invite's makeCall returns: the next
\* invite session of this Call is being set up.
CallRetrySent ==
    /\ cl_pc = "idle"
    /\ cl_timer = "armed"
    /\ cl_timer' = "idle"
    /\ cl_state' = "setup"
    /\ cl_last' = [cl_last EXCEPT !.kind = "resent"]
    /\ UNCHANGED <<cl_audio, cl_mode, cl_target, cl_role, cl_attempts, cl_bridges,
                   cl_workers, cl_pc, cl_status, cl_log, cl_events>>
    /\ UNCHANGED NotCall

\* The retry timer fires and makeCall raises: _retry_invite schedules the
\* next retry itself while the counter is below the maximum.
CallRetryRaised ==
    /\ cl_pc = "idle"
    /\ cl_timer = "armed"
    /\ IF cl_attempts < SIP_INVITE_MAX_ATTEMPTS
       THEN /\ cl_attempts' = cl_attempts + 1
            /\ cl_timer' = "armed"
       ELSE /\ cl_attempts' = cl_attempts
            /\ cl_timer' = "idle"
    /\ cl_last' = [cl_last EXCEPT !.kind = "raised"]
    /\ UNCHANGED <<cl_audio, cl_mode, cl_target, cl_role, cl_state, cl_bridges,
                   cl_workers, cl_pc, cl_status, cl_log, cl_events>>
    /\ UNCHANGED NotCall

(***************************************************************************)
(* One EndpointTimer (agent.py): schedule, cancel, the native timer entry   *)
(* and the threading.Timer fallback with its thread registration.           *)
(***************************************************************************)
\* threading.Timer objects one EndpointTimer creates.
MaxTimers == 2

\* schedule and cancel calls on one EndpointTimer.
MaxTimerOps == 3

NotTimer == <<FrameVars, SessVars, BridgeVars, RecvVars, SendVars, RetryVars, AuthVars,
              CallVars, is_active, call_state, sess_mode, CloseVars,
    CorrVars,
    DrainVars,
    ReconVars>>

\* "hasattr(self._endpoint, 'utilTimerSchedule') and hasattr(pj, 'TimeVal')",
\* and whether utilTimerSchedule raises.
TimerEnvs == {"native", "missing", "failing"}

\* What _register_thread_with_pjlib finds: "full", threadRegister takes the
\* three arguments; "one_arg", it raises TypeError on three and takes the
\* name alone; "registered", threadIsRegistered() is true; "none", pj has no
\* Lib, instance() raises or there is no threadRegister; "raises",
\* threadRegister raises.
TimerLibs == {"full", "one_arg", "registered", "none", "raises"}

\* schedule() reaches the threading.Timer lines: the native facility is
\* missing, or utilTimerSchedule raised.
falls_back(env) == env \in {"missing", "failing"}

\* threading.Timer.cancel(): sets the finished event, which stops a timer
\* that is still waiting and nothing else.
thread_cancel(t) ==
    [t EXCEPT !.cancelled = TRUE,
              !.state = IF t.state = "waiting" THEN "cancelled" ELSE t.state]

\* _register_thread_with_pjlib: what became of the registration.
register_thread(lib) ==
    CASE lib = "full" -> "yes"
      [] lib = "one_arg" -> "yes"
      [] lib = "registered" -> "already"
      [] lib = "none" -> "no"
      [] lib = "raises" -> "no"

\* EndpointTimer.cancel applied to the thread timers: the referenced timer
\* is cancelled and the reference dropped.
CancelledTimers ==
    IF tm_ref = 0 THEN tm_timers
    ELSE [tm_timers EXCEPT ![tm_ref] = thread_cancel(tm_timers[tm_ref])]

TimerInit ==
    /\ tm_env \in TimerEnvs
    /\ tm_lib \in TimerLibs
    /\ tm_native = "idle"
    /\ tm_timers = <<>>
    /\ tm_ref = 0
    /\ tm_native_calls = 0
    /\ tm_ops = 0

TimerIdle ==
    /\ tm_env = "native"
    /\ tm_lib = "full"
    /\ tm_native = "idle"
    /\ tm_timers = <<>>
    /\ tm_ref = 0
    /\ tm_native_calls = 0
    /\ tm_ops = 0

\* EndpointTimer.schedule: cancel(), then utilTimerSchedule, or the
\* threading.Timer when that is missing or raises.
TmSchedule ==
    /\ tm_ops < MaxTimerOps
    /\ Len(tm_timers) < MaxTimers
    /\ tm_ops' = tm_ops + 1
    /\ IF falls_back(tm_env)
       THEN /\ tm_native' = "idle"
            /\ tm_timers' = Append(CancelledTimers,
                               [state |-> "waiting", cancelled |-> FALSE,
                                reg |-> "none", calls |-> 0, late |-> FALSE])
            /\ tm_ref' = Len(tm_timers) + 1
       ELSE /\ tm_native' = "armed"
            /\ tm_timers' = CancelledTimers
            /\ tm_ref' = 0
    /\ UNCHANGED <<tm_env, tm_lib, tm_native_calls>>
    /\ UNCHANGED NotTimer

\* EndpointTimer.cancel: utilTimerCancel, and the thread timer if there is
\* one.
TmCancel ==
    /\ tm_ops < MaxTimerOps
    /\ tm_ops' = tm_ops + 1
    /\ tm_native' = "idle"
    /\ tm_timers' = CancelledTimers
    /\ tm_ref' = 0
    /\ UNCHANGED <<tm_env, tm_lib, tm_native_calls>>
    /\ UNCHANGED NotTimer

\* EndpointTimer.onTimeout: the native entry fires on the library's thread.
TmNativeFire ==
    /\ tm_native = "armed"
    /\ tm_native' = "idle"
    /\ tm_native_calls' = tm_native_calls + 1
    /\ UNCHANGED <<tm_env, tm_lib, tm_timers, tm_ref, tm_ops>>
    /\ UNCHANGED NotTimer

\* threading.Timer.run: the wait is over and the finished event was found
\* unset; from here on the timer's thread runs _thread_timer_callback.
TmThreadExpire ==
    /\ \E i \in 1..Len(tm_timers) :
          /\ tm_timers[i].state = "waiting"
          /\ tm_timers' = [tm_timers EXCEPT ![i].state = "expired"]
    /\ UNCHANGED <<tm_env, tm_lib, tm_native, tm_ref, tm_native_calls, tm_ops>>
    /\ UNCHANGED NotTimer

\* _thread_timer_callback: self._register_thread_with_pjlib()
TmThreadRegister ==
    /\ \E i \in 1..Len(tm_timers) :
          /\ tm_timers[i].state = "expired"
          /\ tm_timers' = [tm_timers EXCEPT ![i].state = "ready",
                                            ![i].reg = register_thread(tm_lib)]
    /\ UNCHANGED <<tm_env, tm_lib, tm_native, tm_ref, tm_native_calls, tm_ops>>
    /\ UNCHANGED NotTimer

\* _thread_timer_callback: self._callback()
TmThreadCallback ==
    /\ \E i \in 1..Len(tm_timers) :
          /\ tm_timers[i].state = "ready"
          /\ tm_timers' = [tm_timers EXCEPT ![i].state = "done",
                                            ![i].calls = @ + 1,
                                            ![i].late = tm_timers[i].cancelled]
    /\ UNCHANGED <<tm_env, tm_lib, tm_native, tm_ref, tm_native_calls, tm_ops>>
    /\ UNCHANGED NotTimer

(***************************************************************************)
(* The correlation id of one Call: Call.__init__, _ensure_correlation_id,   *)
(* _correlation_context and _log_event (agent.py), Monitor.add_call         *)
(* (monitor.py) and correlation_scope (observability.py).  Ids are numbers, *)
(* 0 stands for None.                                                      *)
(***************************************************************************)
\* Correlation scopes nested in one thread.
MaxScopeDepth == 2

\* Operations on the correlation id of one Call.
MaxCorrOps == 4

\* The id of some other call, current in the thread before this Call acts.
OtherCorrId == 1

\* The first value generate_correlation_id returns for this Call.
FirstCorrId == 2

NotCorr == <<FrameVars, SessVars, BridgeVars, RecvVars, SendVars, RetryVars, AuthVars,
             CallVars, TimerVars, is_active, call_state, sess_mode, CloseVars,
    DrainVars,
    ReconVars>>

\* An id that is generated anew on every use, for comparison.
always_new_id(id, fresh) == fresh

\* "correlation_id = getattr(self, 'correlation_id', None); if not
\* correlation_id: correlation_id = generate_correlation_id()", and
\* "correlation_id or generate_correlation_id()" of Monitor.add_call.
id_or_new(id, fresh) == IF id # 0 THEN id ELSE fresh

\* generate_correlation_id was called by id_or_new.
FreshAfter(id, fresh) == IF id_or_new(id, fresh) = fresh THEN fresh + 1 ELSE fresh

\* correlation_scope(id) entered: with None nothing is set, otherwise the
\* variable is set and the token keeps the previous value.
ScopeEntered(cur, id) == IF id = 0 THEN cur ELSE id

ScopeToken(cur, id) == [prev |-> cur, tok |-> id # 0]

\* correlation_scope left: "_correlation_id_var.reset(token)".
ScopeLeft(cur, entry) == IF entry.tok THEN entry.prev ELSE cur

CorrInit ==
    /\ co_id = FirstCorrId
    /\ co_first = FirstCorrId
    /\ co_fresh = FirstCorrId + 1
    /\ co_cur \in {0, OtherCorrId}
    /\ co_stack = <<>>
    /\ co_log = 0
    /\ co_left = [prev |-> 0, now |-> 0, n |-> 0]
    /\ co_ops = 0

CorrIdle ==
    /\ co_id = FirstCorrId
    /\ co_first = FirstCorrId
    /\ co_fresh = FirstCorrId + 1
    /\ co_cur = 0
    /\ co_stack = <<>>
    /\ co_log = 0
    /\ co_left = [prev |-> 0, now |-> 0, n |-> 0]
    /\ co_ops = 0

\* Account.onIncomingCall / make_outgoing_call: "correlation_id =
\* monitor.add_call(label, correlation_id=call.correlation_id);
\* call.correlation_id = correlation_id".
CoRegister ==
    /\ co_ops < MaxCorrOps
    /\ co_ops' = co_ops + 1
    /\ co_id' = id_or_new(co_id, co_fresh)
    /\ co_fresh' = FreshAfter(co_id, co_fresh)
    /\ UNCHANGED <<co_first, co_cur, co_stack, co_log, co_left>>
    /\ UNCHANGED NotCorr

\* "with self._correlation_context():" is entered (onCallState,
\* _schedule_invite_retry, _retry_invite, the session coroutines), or the
\* runner of the provider thread enters correlation_scope with the id
\* _ensure_correlation_id returned.
CoEnter ==
    /\ co_ops < MaxCorrOps
    /\ Len(co_stack) < MaxScopeDepth
    /\ co_ops' = co_ops + 1
    /\ co_id' = id_or_new(co_id, co_fresh)
    /\ co_fresh' = FreshAfter(co_id, co_fresh)
    /\ co_stack' = Append(co_stack, ScopeToken(co_cur, co_id'))
    /\ co_cur' = ScopeEntered(co_cur, co_id')
    /\ UNCHANGED <<co_first, co_log, co_left>>
    /\ UNCHANGED NotCorr

\* correlation_scope(id) of something else is entered around the Call's
\* code: another call's id, or None.
CoEnterOther(id) ==
    /\ co_ops < MaxCorrOps
    /\ Len(co_stack) < MaxScopeDepth
    /\ co_ops' = co_ops + 1
    /\ co_stack' = Append(co_stack, ScopeToken(co_cur, id))
    /\ co_cur' = ScopeEntered(co_cur, id)
    /\ UNCHANGED <<co_id, co_first, co_fresh, co_log, co_left>>
    /\ UNCHANGED NotCorr

\* The innermost scope is left.
CoLeave ==
    /\ co_stack # <<>>
    /\ co_cur' = ScopeLeft(co_cur, co_stack[Len(co_stack)])
    /\ co_stack' = SubSeq(co_stack, 1, Len(co_stack) - 1)
    /\ co_left' = [prev |-> co_stack[Len(co_stack)].prev, now |-> co_cur',
                   n |-> co_left.n + 1]
    /\ UNCHANGED <<co_id, co_first, co_fresh, co_log, co_ops>>
    /\ UNCHANGED NotCorr

\* Call._log_event: the scope of the Call's id is entered, monitor.add_log
\* runs inside it, and the scope is left.
CoLogEvent ==
    /\ co_ops < MaxCorrOps
    /\ co_ops' = co_ops + 1
    /\ co_id' = id_or_new(co_id, co_fresh)
    /\ co_fresh' = FreshAfter(co_id, co_fresh)
    /\ co_log' = ScopeEntered(co_cur, co_id')
    /\ co_cur' = ScopeLeft(ScopeEntered(co_cur, co_id'), ScopeToken(co_cur, co_id'))
    /\ UNCHANGED <<co_first, co_stack, co_left>>
    /\ UNCHANGED NotCorr

(***************************************************************************)
(* A send loop (Call.send_audio_to_openai_realtime / _legacy, agent.py)     *)
(* taking frames from the capture queue of one AudioCallback, with          *)
(* putFrame on the telephony thread and stop() as in the bridge model.      *)
(***************************************************************************)
NotBridgeButDrain == <<FrameVars, SessVars, RecvVars, SendVars, call_state, RetryVars,
                       AuthVars, sess_mode, CloseVars, CallVars, TimerVars, CorrVars,
    ReconVars>>

CaptureVarsButQueue == <<capture_buffer, cap_pc, cap_chunk, cap_seen, cap_timeouts,
                         cap_made, cap_got>>

\* "while self.audio_callback.is_active:"
LoopGoesOn(active, q) == active

DrainStart ==
    /\ sl_pc = "top"
    /\ sl_chunk = <<>>
    /\ sl_sent = <<>>
    /\ sl_ws = "open"

DrainIdle ==
    /\ sl_pc = "none"
    /\ sl_chunk = <<>>
    /\ sl_sent = <<>>
    /\ sl_ws = "open"

\* The loop test of the send loop.
SlTop ==
    /\ sl_pc = "top"
    /\ sl_pc' = IF LoopGoesOn(is_active, capture_queue) THEN "get" ELSE "ended"
    /\ UNCHANGED <<sl_chunk, sl_sent, sl_ws>>
    /\ UNCHANGED <<capture_queue, CaptureVarsButQueue>>
    /\ UNCHANGED <<dir, PlaybackVars, StopVars, audio_dropouts, dropped, is_active>>
    /\ UNCHANGED NotBridgeButDrain

\* "audio_chunk = await self.audio_callback.get_capture_frame()": the get
\* of _capture_queue_get returns the oldest entry.  An empty one (stop()'s
\* sentinel) ends the loop when the bridge is inactive, and otherwise the
\* loop goes round.  (On an empty queue the get waits: stop() puts its
\* sentinel in the step that marks the bridge inactive.)
SlGetFrame ==
    /\ sl_pc = "get"
    /\ capture_queue # <<>>
    /\ capture_queue' = Tail(capture_queue)
    /\ sl_chunk' = QueueGet(capture_queue)
    /\ sl_pc' = IF QueueGet(capture_queue) # <<>> THEN "send"
                ELSE IF ~is_active THEN "ended" ELSE "top"
    /\ UNCHANGED <<sl_sent, sl_ws>>
    /\ UNCHANGED CaptureVarsButQueue
    /\ UNCHANGED <<dir, PlaybackVars, StopVars, audio_dropouts, dropped, is_active>>
    /\ UNCHANGED NotBridgeButDrain

\* "if self.ws and not self.ws.closed: await self._ws_send(...)": the frame
\* is written to an open socket and is passed over on a closed one.
SlSend ==
    /\ sl_pc = "send"
    /\ sl_sent' = IF sl_ws = "open" THEN Append(sl_sent, sl_chunk) ELSE sl_sent
    /\ sl_pc' = "top"
    /\ UNCHANGED <<sl_chunk, sl_ws>>
    /\ UNCHANGED <<capture_queue, CaptureVarsButQueue>>
    /\ UNCHANGED <<dir, PlaybackVars, StopVars, audio_dropouts, dropped, is_active>>
    /\ UNCHANGED NotBridgeButDrain

\* The socket is closed under the send loop.
SlSocketClosed ==
    /\ sl_pc \in {"top", "get", "send"}
    /\ sl_ws = "open"
    /\ sl_ws' = "closed"
    /\ UNCHANGED <<sl_pc, sl_chunk, sl_sent>>
    /\ UNCHANGED <<capture_queue, CaptureVarsButQueue>>
    /\ UNCHANGED <<dir, PlaybackVars, StopVars, audio_dropouts, dropped, is_active>>
    /\ UNCHANGED NotBridgeButDrain

(***************************************************************************)
(* Registration and automatic reconnection of EnhancedAccount              *)
(* (sip_client.py): onRegState, _schedule_reconnect, _reconnect_after_delay *)
(* and _attempt_registration.  The settings object is taken to carry the   *)
(* attributes the class reads (sip_registration_retry_max and              *)
(* sip_registration_retry_backoff).                                        *)
(***************************************************************************)
\* settings.sip_registration_retry_max
RetryMax == 3

\* settings.sip_registration_retry_backoff
BackoffBase == 2

\* Bound on registration_attempts, which the except path of
\* _attempt_registration raises without looking at the retry limit.
MaxReconAttempts == 4

\* Status codes onRegState is called with: success and one failure.
RegOk == 200

RegForbidden == 403

NotRecon == <<FrameVars, SessVars, BridgeVars, RecvVars, SendVars, RetryVars, AuthVars,
              CallVars, TimerVars, CorrVars, is_active, call_state, sess_mode, CloseVars,
              DrainVars>>

RECURSIVE Power(_, _)
Power(b, n) == IF n = 0 THEN 1 ELSE b * Power(b, n - 1)

\* "if self.reconnect_task and not self.reconnect_task.done(): return": the
\* task object is there and has not finished; a task that is running
\* _attempt_registration has not finished.
task_busy(task) == task \in {"sleeping", "attempting"}

\* _schedule_reconnect: registration_attempts after the call.
ScheduledAttempts(task, attempts) ==
    IF task_busy(task) THEN attempts ELSE attempts + 1

\* _schedule_reconnect: reconnect_task after the call
\* (asyncio.create_task(self._reconnect_after_delay(backoff_time))).
ScheduledTask(task) == IF task_busy(task) THEN task ELSE "sleeping"

\* _schedule_reconnect: "backoff_time = sip_registration_retry_backoff **
\* registration_attempts" of the task it creates.
ScheduledDelay(task, attempts, delay) ==
    IF task_busy(task) THEN delay ELSE Power(BackoffBase, attempts + 1)

\* _schedule_reconnect: the number of unfinished tasks after the call.
ScheduledPending(task, pending) == IF task_busy(task) THEN pending ELSE pending + 1

\* EnhancedAccount.__init__.
ReconInit ==
    /\ rc_registered = FALSE
    /\ rc_attempts = 0
    /\ rc_task = "none"
    /\ rc_account = "none"
    /\ rc_delay = 0
    /\ rc_pending = 0
    /\ rc_failed = FALSE

ReconIdle == ReconInit

\* onRegState: PJSIP reports the result of a registration.  200 marks the
\* account registered and resets the counter; anything else marks it
\* unregistered and, within the retry limit, calls _schedule_reconnect.
RcOnRegState(status) ==
    /\ rc_account = "registering"
    /\ rc_account' = "settled"
    /\ IF status = RegOk
       THEN /\ rc_registered' = TRUE
            /\ rc_attempts' = 0
            /\ rc_failed' = FALSE
            /\ UNCHANGED <<rc_task, rc_delay, rc_pending>>
       ELSE /\ rc_registered' = FALSE
            /\ rc_failed' = TRUE
            /\ IF rc_attempts < RetryMax
               THEN /\ rc_attempts' = ScheduledAttempts(rc_task, rc_attempts)
                    /\ rc_task' = ScheduledTask(rc_task)
                    /\ rc_delay' = ScheduledDelay(rc_task, rc_attempts, rc_delay)
                    /\ rc_pending' = ScheduledPending(rc_task, rc_pending)
               ELSE UNCHANGED <<rc_attempts, rc_task, rc_delay, rc_pending>>
    /\ UNCHANGED NotRecon

\* _reconnect_after_delay: "await asyncio.sleep(delay)" returns.
RcWake ==
    /\ rc_task = "sleeping"
    /\ rc_task' = "attempting"
    /\ UNCHANGED <<rc_registered, rc_attempts, rc_account, rc_delay, rc_pending, rc_failed>>
    /\ UNCHANGED NotRecon

\* _reconnect_after_delay: "await self._attempt_registration()" inside the
\* reconnect task, which then ends.  create() either starts a registration
\* or raises; the except clause calls _schedule_reconnect while the task
\* that is running it is still self.reconnect_task.
RcTaskAttempt(ok) ==
    /\ rc_task = "attempting"
    /\ IF ok
       THEN /\ rc_account' = "registering"
            /\ rc_failed' = FALSE
            /\ rc_attempts' = rc_attempts
            /\ rc_delay' = rc_delay
            /\ rc_task' = "done"
            /\ rc_pending' = rc_pending - 1
       ELSE /\ rc_failed' = TRUE
            /\ rc_account' = rc_account
            /\ rc_attempts' = ScheduledAttempts(rc_task, rc_attempts)
            /\ rc_delay' = ScheduledDelay(rc_task, rc_attempts, rc_delay)
            /\ rc_task' = IF ScheduledTask(rc_task) = rc_task THEN "done" ELSE "sleeping"
            /\ rc_pending' = ScheduledPending(rc_task, rc_pending) - 1
    /\ UNCHANGED rc_registered
    /\ UNCHANGED NotRecon

\* SIPClient.register: "await self.account._attempt_registration()" outside
\* any reconnect task.
RcRegister(ok) ==
    /\ rc_attempts < MaxReconAttempts
    /\ ~rc_registered
    /\ rc_account # "registering"
    /\ IF ok
       THEN /\ rc_account' = "registering"
            /\ rc_failed' = FALSE
            /\ UNCHANGED <<rc_attempts, rc_task, rc_delay, rc_pending>>
       ELSE /\ rc_failed' = TRUE
            /\ rc_account' = rc_account
            /\ rc_attempts' = ScheduledAttempts(rc_task, rc_attempts)
            /\ rc_task' = ScheduledTask(rc_task)
            /\ rc_delay' = ScheduledDelay(rc_task, rc_attempts, rc_delay)
            /\ rc_pending' = ScheduledPending(rc_task, rc_pending)
    /\ UNCHANGED rc_registered
    /\ UNCHANGED NotRecon

\* PJSIP registers the existing account again by itself (refresh before
\* expiry, or its own retry after a failure); onRegState reports the result.
RcPjRegisterAgain ==
    /\ rc_account = "settled"
    /\ rc_account' = "registering"
    /\ UNCHANGED <<rc_registered, rc_attempts, rc_task, rc_delay, rc_pending, rc_failed>>
    /\ UNCHANGED NotRecon

FrameInit == FbInit /\ SessIdle /\ BridgeIdle /\ RxIdle /\ TxIdle /\ RetryIdle /\ AuthIdle /\ CloseInit /\ CallIdle /\ TimerIdle /\ CorrIdle /\ DrainIdle /\ ReconIdle /\ is_active = TRUE

FrameNext ==
    \/ \E n \in 1..MaxChunk : FbAppend(n)
    \/ \E data \in SeqsUpTo(Byte, FRAME_BYTES + 2) : FbNormalize(data)

SpecFrame == FrameInit /\ [][FrameNext]_vars

SessionInit == SessInit /\ FbInit /\ BridgeIdle /\ RxIdle /\ TxIdle /\ RetryIdle /\ AuthIdle /\ CloseInit /\ CallIdle /\ TimerIdle /\ CorrIdle /\ DrainIdle /\ ReconIdle /\ is_active = TRUE

SessionNext ==
    \/ MainConnectOk \/ MainConnectFail \/ MainUpdateDone
    \/ SendStart \/ SendGotFrame \/ SendGotEmpty \/ SendResume \/ SendRaise
    \/ RecvStart \/ RecvOther \/ RecvCompleted \/ RecvClosed
    \/ RecvCommitDone \/ RecvCommitRaise \/ CancelSender
    \/ MainAfterSend \/ MainCommitDone \/ MainCommitRaise
    \/ MainCloseDone \/ MainCloseError \/ MainCloseAgain \/ MainReturn
    \/ ProviderClose \/ SessBridgeStop

SpecSession == SessionInit /\ [][SessionNext]_vars

\* The event loop of the agent thread keeps running its coroutines.  The
\* far end's hang-up and the provider's close are under no obligation.
SessionFairness ==
    WF_vars(\/ MainConnectOk \/ MainConnectFail \/ MainUpdateDone
            \/ SendStart \/ SendGotFrame \/ SendGotEmpty \/ SendResume \/ SendRaise
            \/ RecvStart \/ RecvOther \/ RecvCompleted \/ RecvClosed
            \/ RecvCommitDone \/ RecvCommitRaise \/ CancelSender
            \/ MainAfterSend \/ MainCommitDone \/ MainCommitRaise
            \/ MainCloseDone \/ MainCloseError \/ MainReturn)

SpecSessionFair == SessionInit /\ [][SessionNext]_vars /\ SessionFairness

BridgeSpecInit == BridgeInit /\ FbInit /\ SessIdle /\ RxIdle /\ TxIdle /\ RetryIdle /\ AuthIdle /\ CloseInit /\ CallIdle /\ TimerIdle /\ CorrIdle /\ DrainIdle /\ ReconIdle /\ is_active = TRUE

BridgeNext ==
    \/ \E n \in 1..MaxChunk : PutFrame(n)
    \/ PutFrameLoop \/ CapPutEnqueue \/ CapPutTimeout \/ CapPutDrop
    \/ CaptureGet \/ CaptureGetEmpty
    \/ \E n \in 1..MaxChunk : QueuePlayback(n)
    \/ QueuePlaybackCheck \/ QueuePlaybackSlice \/ QueuePlaybackDel
    \/ PbPutEnqueue \/ PbPutDrop
    \/ FlushPlayback \/ FlushClear \/ FlushEnqueue \/ FlushDrop
    \/ FrameRequestedInactive \/ FrameRequestedQueued \/ FrameRequestedNothing
    \/ FrameRequestedBuffer \/ FrameRequestedClear
    \/ StopCall \/ StopFlushClear \/ StopFlushEnqueue \/ StopFinish

SpecBridge == BridgeSpecInit /\ [][BridgeNext]_vars

RecvInit == RxInit /\ FbInit /\ SessIdle /\ BridgeIdle /\ TxIdle /\ RetryIdle /\ AuthIdle /\ CloseInit /\ CallIdle /\ TimerIdle /\ CorrIdle /\ DrainIdle /\ ReconIdle /\ is_active = TRUE

RecvNext ==
    \/ \E msg \in RxMessages : RxReceive(msg)
    \/ RxClosed

SpecRecv == RecvInit /\ [][RecvNext]_vars

SendInit == TxInit /\ FbInit /\ SessIdle /\ BridgeIdle /\ RxIdle /\ RetryIdle /\ AuthIdle /\ CloseInit /\ CallIdle /\ TimerIdle /\ CorrIdle /\ DrainIdle /\ ReconIdle /\ is_active = TRUE

SendNext ==
    \/ \E frame \in TxFrames, open \in BOOLEAN, active \in BOOLEAN :
           TxIterate(frame, open, active)
    \/ TxCancelled

SpecSend == SendInit /\ [][SendNext]_vars

\* The threads inside _blocking_put and inside stop() keep running; the
\* consumers (get_capture_frame, onFrameRequested) and new calls of the
\* producers are under no obligation.
BridgeFairness ==
    /\ WF_vars(CapPutEnqueue \/ CapPutDrop)
    /\ WF_vars(PbPutEnqueue \/ PbPutDrop)
    /\ WF_vars(FlushClear \/ FlushEnqueue \/ FlushDrop)
    /\ WF_vars(StopFlushClear \/ StopFlushEnqueue \/ StopFinish)

SpecBridgeFair == BridgeSpecInit /\ [][BridgeNext]_vars /\ BridgeFairness

RetrySpecInit == RetryInit /\ FbInit /\ SessIdle /\ BridgeIdle /\ RxIdle /\ TxIdle /\ AuthIdle /\ CloseInit /\ CallIdle /\ TimerIdle /\ CorrIdle /\ DrainIdle /\ ReconIdle /\ is_active = TRUE

RetryNext ==
    \/ OnCallConfirmed
    \/ \E status \in SipStatuses : OnCallDisconnected(status)
    \/ InvTimerExpire
    \/ RetryInviteSent
    \/ RetryInviteRaised
    \/ \E status \in SipStatuses : OnRegState(status)
    \/ RegTimerExpire
    \/ RetryRegistrationSent
    \/ RetryRegistrationRaised

SpecRetry == RetrySpecInit /\ [][RetryNext]_vars

AuthSpecInit == AuthInit /\ FbInit /\ SessIdle /\ BridgeIdle /\ RxIdle /\ TxIdle /\ RetryIdle /\ CloseInit /\ CallIdle /\ TimerIdle /\ CorrIdle /\ DrainIdle /\ ReconIdle /\ is_active = TRUE

AuthNext ==
    \/ \E token \in Tokens : CreateSession(token)
    \/ \E token \in {0} \cup Tokens : ValidateSession(token)
    \/ \E token \in {0} \cup Tokens : RevokeSession(token)
    \/ SessTick

SpecAuth == AuthSpecInit /\ [][AuthNext]_vars



CallSpecInit == CallInit /\ FbInit /\ SessIdle /\ BridgeIdle /\ RxIdle /\ TxIdle /\ RetryIdle /\ AuthIdle /\ CloseInit /\ TimerIdle /\ CorrIdle /\ DrainIdle /\ ReconIdle /\ is_active = TRUE

CallNext ==
    \/ CallConfirmed
    \/ WorkerEnds
    \/ \E status \in SipStatuses : CallDisconnected(status)
    \/ DcDrain \/ DcStop \/ DcJoin \/ DcDecide
    \/ CallRetrySent \/ CallRetryRaised

SpecCall == CallSpecInit /\ [][CallNext]_vars

TimerSpecInit == TimerInit /\ FbInit /\ SessIdle /\ BridgeIdle /\ RxIdle /\ TxIdle /\ RetryIdle /\ AuthIdle /\ CallIdle /\ CloseInit /\ CorrIdle /\ DrainIdle /\ ReconIdle /\ is_active = TRUE

TimerNext ==
    \/ TmSchedule
    \/ TmCancel
    \/ TmNativeFire
    \/ TmThreadExpire
    \/ TmThreadRegister
    \/ TmThreadCallback

SpecTimer == TimerSpecInit /\ [][TimerNext]_vars

CorrSpecInit == CorrInit /\ FbInit /\ SessIdle /\ BridgeIdle /\ RxIdle /\ TxIdle /\ RetryIdle /\ AuthIdle /\ CallIdle /\ TimerIdle /\ CloseInit /\ DrainIdle /\ ReconIdle /\ is_active = TRUE

CorrNext ==
    \/ CoRegister
    \/ CoEnter
    \/ \E id \in {0, OtherCorrId} : CoEnterOther(id)
    \/ CoLeave
    \/ CoLogEvent

SpecCorr == CorrSpecInit /\ [][CorrNext]_vars

DrainSpecInit == BridgeInit /\ dir = "capture" /\ DrainStart /\ FbInit /\ SessIdle /\ RxIdle /\ TxIdle /\ RetryIdle /\ AuthIdle /\ CallIdle /\ TimerIdle /\ CorrIdle /\ CloseInit /\ ReconIdle /\ is_active = TRUE

DrainNext ==
    \/ \E n \in 1..MaxChunk : PutFrame(n)
    \/ PutFrameLoop \/ CapPutEnqueue \/ CapPutTimeout \/ CapPutDrop
    \/ StopCall \/ StopFinish
    \/ SlTop \/ SlGetFrame \/ SlSend \/ SlSocketClosed

SpecDrain == DrainSpecInit /\ [][DrainNext]_vars

ReconSpecInit == ReconInit /\ FbInit /\ SessIdle /\ BridgeIdle /\ RxIdle /\ TxIdle /\ RetryIdle /\ AuthIdle /\ CallIdle /\ TimerIdle /\ CorrIdle /\ CloseInit /\ DrainIdle /\ is_active = TRUE

ReconNext ==
    \/ \E status \in {RegOk, RegForbidden} : RcOnRegState(status)
    \/ RcWake
    \/ \E ok \in BOOLEAN : RcTaskAttempt(ok)
    \/ \E ok \in BOOLEAN : RcRegister(ok)
    \/ RcPjRegisterAgain

SpecRecon == ReconSpecInit /\ [][ReconNext]_vars

\* The event loop runs a reconnect task that is ready, and PJSIP reports the
\* result of every registration it has started.
SpecReconFair ==
    /\ SpecRecon
    /\ WF_vars(RcWake)
    /\ WF_vars(\E ok \in BOOLEAN : RcTaskAttempt(ok))
    /\ WF_vars(\E status \in {RegOk, RegForbidden} : RcOnRegState(status))

(***************************************************************************)
(* Claims about the realtime session (SpecSession)                         *)
(***************************************************************************)
RECURSIVE Count(_, _)
Count(msgs, kind) ==
    IF msgs = <<>> THEN 0
    ELSE (IF Head(msgs) = kind THEN 1 ELSE 0) + Count(Tail(msgs), kind)

\* C1: in one realtime session at most one input_audio_buffer.commit is
\* ever written to the socket, under every interleaving of the receive
\* loop's response.completed handling, the end of the send loop and the
\* close, also when two callers of _send_realtime_commit overlap.
C1_AtMostOneCommit == Count(sent, "commit") <= 1

\* C2: when start_openai_agent_realtime has returned for a session whose
\* socket was opened, exactly one commit has been written.
C2_ExactlyOneCommitOnReturn ==
    (sess_mode = "realtime" /\ main_pc = "m_returned") => Count(sent, "commit") = 1

\* C3: no input_audio_buffer.append is written after the commit of the
\* same session.
C3_NoAppendAfterCommit ==
    \A i, j \in 1..Len(sent) :
        (i < j /\ sent[i] = "commit") => sent[j] # "append"

(***************************************************************************)
(* Claims about frame accumulation and normalisation (SpecFrame)           *)
(***************************************************************************)

C9_AppendSlicing ==
    /\ fb_last.op = "append" =>
          LET r == Len(fb_last.before)
              n == Len(fb_last.data)
          IN /\ Len(fb_last.frames) = (r + n) \div FRAME_BYTES
             /\ Len(fb_last.rest) = (r + n) % FRAME_BYTES
             /\ Concat(fb_last.frames) \o fb_last.rest
                    = fb_last.before \o fb_last.data
             /\ fb_buffer = fb_last.rest
    /\ Concat(fb_out) \o fb_buffer = fb_in

\* Scenario A at model scale: one and a half frames, then half a frame;
\* the second append completes the second frame and leaves nothing.
C9_Witness ==
    /\ fb_last.op = "append"
    /\ Len(fb_last.before) * 2 = FRAME_BYTES
    /\ Len(fb_last.data) * 2 = FRAME_BYTES
    /\ Len(fb_in) = 2 * FRAME_BYTES
    /\ Len(fb_out) = 2
    /\ fb_buffer = <<>>

\* C10: _normalize_chunk(b) is b when len(b) = FRAME_BYTES, the first
\* FRAME_BYTES bytes of b when b is longer, and b followed by zero bytes up
\* to FRAME_BYTES when b is shorter (all zeros when b is empty).
C10_Normalize ==
    fb_last.op = "normalize" =>
        LET b == fb_last.data
            r == fb_last.result
        IN /\ Len(b) = FRAME_BYTES => r = b
           /\ Len(b) > FRAME_BYTES => r = SubSeq(b, 1, FRAME_BYTES)
           /\ Len(b) < FRAME_BYTES =>
                 /\ Len(r) = FRAME_BYTES
                 /\ SubSeq(r, 1, Len(b)) = b
                 /\ \A i \in (Len(b) + 1)..FRAME_BYTES : r[i] = 0

\* A short non-zero chunk was padded on the right.
C10_Witness ==
    /\ fb_last.op = "normalize"
    /\ Len(fb_last.data) = FRAME_BYTES - 1
    /\ fb_last.data[1] # 0
    /\ fb_last.result = fb_last.data \o <<0>>


(***************************************************************************)
(* Claims about the audio bridge queues (SpecBridge)                       *)
(***************************************************************************)
RECURSIVE IsSubseq(_, _)
IsSubseq(s, t) ==
    IF s = <<>> THEN TRUE
    ELSE IF t = <<>> THEN FALSE
    ELSE IF Head(s) = Head(t) THEN IsSubseq(Tail(s), Tail(t))
    ELSE IsSubseq(s, Tail(t))

\* The audio bytes (padding and silence left out) of a sequence of frames.
AudioBytes(frames) == SelectSeq(Concat(frames), LAMBDA b : b # 0)

InArrivalOrder(s) == \A i \in 1..(Len(s) - 1) : s[i] <= s[i + 1]

\* C4: putFrame returns after a bounded number of enqueue timeouts: with
\* the capture queue full, nobody dequeuing and the bridge active, the
\* pending frame is given up after the timeout, so one _blocking_put never
\* sees more than MaxPutTimeouts timeouts.
C4_PutReturnsAfterTimeouts == cap_timeouts <= MaxPutTimeouts

\* C5: in every reachable state the capture queue and the playback queue
\* each hold at most MAX_PENDING_FRAMES entries, stop()'s empty sentinel
\* entries included.
C5_QueuesBounded ==
    /\ Len(capture_queue) <= MAX_PENDING_FRAMES
    /\ Len(playback_queue) <= MAX_PENDING_FRAMES

\* Both directions at their limit: a producer is waiting on a full queue
\* and stop() has already tried to add its sentinel.
C5_Witness ==
    /\ stop_event
    /\ \/ Len(capture_queue) = MAX_PENDING_FRAMES /\ cap_pc = "put"
       \/ Len(playback_queue) = MAX_PENDING_FRAMES /\ pp_pc = "put"

\* C6: whenever a frame is discarded because its queue is full, the queued
\* frames stay as they are and the dropout counter goes up by exactly one;
\* the counter never goes down.
C6_DropNewestAndCount ==
    [][/\ dropped' = dropped + 1 =>
              /\ capture_queue' = capture_queue
              /\ playback_queue' = playback_queue
              /\ audio_dropouts' = audio_dropouts + 1
       /\ audio_dropouts' >= audio_dropouts]_vars

\* C7: in each direction what the consumer obtains is, in order, part of
\* what was produced: the frames returned by get_capture_frame are a
\* subsequence of the frames putFrame sliced, and the audio handed out by
\* onFrameRequested is in the order queue_playback_frame received it.
C7_DeliveredInOrder ==
    /\ IsSubseq(SelectSeq(cap_got, LAMBDA f : f # <<>>), cap_made)
    /\ InArrivalOrder(AudioBytes([i \in 1..Len(pb_out) |-> pb_out[i].buf]))

\* C11: every pull by onFrameRequested that found the bridge active hands
\* out an audio frame of exactly FRAME_BYTES bytes, and a pull that timed
\* out on the empty playback queue with no partial buffer hands out
\* FRAME_BYTES zero bytes.
C11_PullYieldsFrame ==
    \A i \in 1..Len(pb_out) :
        pb_out[i].src # "inactive" =>
            /\ Len(pb_out[i].buf) = FRAME_BYTES
            /\ pb_out[i].src = "silence" => pb_out[i].buf = Zeros(FRAME_BYTES)

\* One pull found nothing at all and one drained a partial buffer.
C11_Witness ==
    /\ \E i \in 1..Len(pb_out) : pb_out[i].src = "silence"
    /\ \E i \in 1..Len(pb_out) :
           /\ pb_out[i].src = "buffer"
           /\ pb_out[i].buf[1] # 0
           /\ pb_out[i].buf[FRAME_BYTES] = 0

\* C12: get_capture_frame returns an empty result only when the bridge has
\* been stopped and no audio frame is left in the capture queue, and every
\* non-empty result is a frame putFrame produced for the queue.
C12_EmptyOnlyWhenDrained ==
    [][Len(cap_got') > Len(cap_got) =>
           LET r == cap_got'[Len(cap_got')]
           IN IF r = <<>>
              THEN /\ ~is_active
                   /\ \A i \in 1..Len(capture_queue') : capture_queue'[i] = <<>>
              ELSE \E j \in 1..Len(cap_made) : cap_made[j] = r]_vars

\* C13: stop() is idempotent: a call of stop() on a bridge that is already
\* inactive returns at once and changes nothing: no flush, no sentinel in
\* either queue, is_active stays false.
C13_StopIdempotent ==
    [][(stop_calls' > stop_calls /\ ~is_active) =>
           /\ stop_pc' = "idle"
           /\ UNCHANGED <<is_active, stop_event, capture_queue, playback_queue,
                          capture_buffer, playback_buffer>>]_vars

\* stop() has been called again after the first call had finished.
C13_Witness == stop_calls = 2 /\ ~is_active /\ stop_pc = "idle" /\ stop_event

\* C14: when the first stop() returns the bridge is inactive and the partial
\* playback buffer is empty, and a partial buffer that stop() found was put
\* into the playback queue, zero-padded to one frame, before the bridge was
\* marked inactive.
C14_FirstStopFlushes ==
    [][(stop_pc = "finish" /\ stop_pc' = "idle") =>
           /\ ~is_active'
           /\ playback_buffer' = <<>>
           /\ stop_chunk # <<>> =>
                 \/ \E i \in 1..Len(playback_queue) : playback_queue[i] = stop_chunk
                 \/ \E i \in 1..Len(pb_out) :
                        pb_out[i].src = "queue" /\ pb_out[i].buf = stop_chunk]_vars

\* C15: once stop() has been called, a producer waiting in _blocking_put
\* eventually returns and a consumer waiting in get_capture_frame is
\* eventually released (the bridge becomes inactive), without any step of
\* the opposite side of the queue.
C15_StopUnblocks ==
    /\ (stop_calls > 0 /\ cap_pc = "put") ~> (cap_pc # "put")
    /\ (stop_calls > 0 /\ pp_pc = "put") ~> (pp_pc # "put")
    /\ (stop_calls > 0) ~> ~is_active

\* C16: when the provider session of an established call has ended because
\* of a failure (the connect raised, the socket failed, the provider closed
\* it), the call goes on to its disconnect cleanup: the bridge is stopped
\* and the call ends.
C16_ProviderEndEndsCall ==
    (main_pc \in {"m_raised", "m_returned"}) ~>
        (call_state = "disconnected" /\ ~is_active)

(***************************************************************************)
(* Claims about the realtime receive loops (SpecRecv)                      *)
(***************************************************************************)

\* The last message received is not JSON, or is an audio delta whose delta
\* is not base64 text.
RxLastIsMalformed ==
    /\ rx_count > 0
    /\ \/ rx_last.msg.raw \in {"text", "binary"}
       \/ /\ rx_last.msg.raw = "json"
          /\ rx_last.msg.type = "response.output_audio.delta"
          /\ \/ rx_last.msg.dkind = "null"
             \/ rx_last.msg.dkind = "string" /\ ~IsBase64(rx_last.msg.delta)

\* C17: an inbound message that is not valid JSON, or an audio delta whose
\* delta is not valid base64, is skipped: no byte of it reaches playback,
\* no commit is triggered, and the loop goes on to the next message.
C17_MalformedSkipped ==
    RxLastIsMalformed =>
        /\ Concat(rx_last.out.handed) = <<>>
        /\ ~rx_last.out.commit
        /\ rx_last.out.pc = "recv"

\* C18: when a realtime receive loop receives a message of type error the
\* loop ends, and no later inbound message of the session is processed.
C18_ErrorEndsLoop ==
    /\ (rx_count > 0 /\ rx_last.msg.raw = "json" /\ rx_last.msg.type = "error") =>
           rx_last.out.pc = "done"
    /\ ~rx_after_error

\* C19: for a response.output_audio.delta whose delta is the base64 text of
\* some bytes, exactly those bytes are handed to the playback path, in one
\* call; a message of any other type hands nothing to playback.
C19_DeltaHandedExactly ==
    rx_count > 0 =>
        LET m == rx_last.msg
        IN /\ (m.raw = "json" /\ m.type = "response.output_audio.delta"
                  /\ m.dkind = "string" /\ IsBase64(m.delta)) =>
                  \E payload \in SeqsUpTo(B64Byte, MaxDeltaLen) :
                      /\ b64encode(payload) = m.delta
                      /\ rx_last.out.handed = <<payload>>
           /\ (m.raw # "json" \/ m.type # "response.output_audio.delta") =>
                  rx_last.out.handed = <<>>

\* A delta carrying two different non-zero bytes was handed over as they are.
C19_Witness ==
    /\ rx_last.msg.type = "response.output_audio.delta"
    /\ rx_last.msg.delta = b64encode(<<1, 2>>)
    /\ rx_last.out.handed = <<<<1, 2>>>>
    /\ rx_last.out.pc = "recv"

(***************************************************************************)
(* Claims about the send loops (SpecSend)                                  *)
(***************************************************************************)

\* C20: for each frame the send loop takes while the socket is open exactly
\* one message is sent: in realtime mode a JSON object of type
\* input_audio_buffer.append whose audio decodes to the frame, in legacy
\* mode one binary message equal to the frame; for the empty result
\* nothing is sent.
C20_OneMessagePerFrame ==
    tx_count > 0 =>
        LET f == tx_last.frame
            out == tx_last.sent
        IN /\ (f # <<>> /\ tx_last.open) =>
                  /\ Len(out) = 1
                  /\ tx_mode = "realtime" =>
                         /\ out[1].kind = "text"
                         /\ out[1].type = "input_audio_buffer.append"
                         /\ b64decode(out[1].audio) = [ok |-> TRUE, bytes |-> f]
                  /\ tx_mode = "legacy" =>
                         /\ out[1].kind = "binary"
                         /\ out[1].data = f
           /\ f = <<>> => out = <<>>

\* A frame of different bytes went out in realtime mode.
C20_Witness ==
    /\ tx_mode = "realtime"
    /\ tx_last.open
    /\ Len(tx_last.frame) = FRAME_BYTES
    /\ tx_last.frame[1] = 1
    /\ tx_last.frame[FRAME_BYTES] = 2
    /\ Len(tx_last.sent) = 1

(***************************************************************************)
(* Claims about the retry schedulers (SpecRetry)                           *)
(***************************************************************************)

\* C21: on an outbound call whose every attempt so far ended in a disconnect
\* with a 4xx-5xx status, one retry has been scheduled per disconnect up to
\* SIP_INVITE_MAX_ATTEMPTS of them; the disconnect after that emits the
\* retry-limit event, once, and leaves no timer armed and no attempt under
\* way; and invite_attempts never exceeds SIP_INVITE_MAX_ATTEMPTS.
C21_InviteRetryLimit ==
    /\ invite_attempts <= SIP_INVITE_MAX_ATTEMPTS
    /\ (target_uri = "uri" /\ inv_clean) =>
          /\ Len(inv_delays) = Min(inv_fails, SIP_INVITE_MAX_ATTEMPTS)
          /\ inv_limit = (IF inv_fails > SIP_INVITE_MAX_ATTEMPTS THEN 1 ELSE 0)
          /\ inv_fails <= SIP_INVITE_MAX_ATTEMPTS + 1
          /\ (inv_limit > 0 =>
                /\ inv_timer = "idle"
                /\ inv_expired = 0
                /\ inv_call = "down")

C21_Witness ==
    /\ target_uri = "uri"
    /\ inv_clean
    /\ inv_limit = 1
    /\ Len(inv_delays) = SIP_INVITE_MAX_ATTEMPTS
    /\ inv_fails = SIP_INVITE_MAX_ATTEMPTS + 1

\* The delays in ds are min(base * 2^k, max_delay) for k = 0, 1, ...; they
\* never decrease and never exceed max_delay.
IsBackoffSeries(ds, base, max_delay) ==
    /\ \A i \in 1..Len(ds) : ds[i] = Min(base * Pow2(i - 1), max_delay)
    /\ \A i \in 1..Len(ds) : ds[i] <= max_delay
    /\ \A i \in 1..Len(ds) : i > 1 => ds[i - 1] <= ds[i]

\* C22: in every step, for the registration retry and for the invite retry,
\* the delays scheduled since the last reset are min(base * 2^k, max_delay)
\* for k = 0, 1, ... in order, non-decreasing and at most max_delay, there is
\* one per count of the attempts counter, and the counter goes down only
\* when a success resets it to 0.
C22_BackoffDelays ==
    [][ /\ IsBackoffSeries(inv_delays', SIP_INVITE_RETRY_BASE, SIP_INVITE_RETRY_MAX)
        /\ IsBackoffSeries(reg_delays', SIP_REG_RETRY_BASE, SIP_REG_RETRY_MAX)
        /\ Len(inv_delays') = invite_attempts'
        /\ Len(reg_delays') = reg_retry_attempts'
        /\ (invite_attempts' < invite_attempts => inv_ok' /\ invite_attempts' = 0)
        /\ (invite_attempts' > invite_attempts => invite_attempts' = invite_attempts + 1)
        /\ (reg_retry_attempts' < reg_retry_attempts => reg_ok' /\ reg_retry_attempts' = 0)
        /\ (reg_retry_attempts' > reg_retry_attempts =>
               reg_retry_attempts' = reg_retry_attempts + 1) ]_vars

C22_Witness ==
    /\ Len(inv_delays) = SIP_INVITE_MAX_ATTEMPTS
    /\ inv_delays[Len(inv_delays)] = SIP_INVITE_RETRY_MAX
    /\ Len(reg_delays) >= 3
    /\ reg_delays[1] < SIP_REG_RETRY_MAX
    /\ reg_delays[Len(reg_delays)] = SIP_REG_RETRY_MAX

\* C23: every time invite retrying has stopped with invite_attempts at the
\* maximum, on a failed disconnect or in _retry_invite, a retry-limit event
\* was emitted for it and no timer is armed.
C23_LimitEventOnStop ==
    /\ inv_limit = inv_stops
    /\ (inv_stops > 0 => inv_timer = "idle" /\ inv_expired = 0)

\* C24: after a success (CONFIRMED, registration status 200) and until the
\* next failure the attempts counter is 0 and no timer is armed, and no
\* retry callback has run in such a period.
C24_SuccessCancelsRetry ==
    /\ (inv_ok => invite_attempts = 0 /\ inv_timer = "idle")
    /\ (reg_ok /\ ~reg_late => reg_retry_attempts = 0 /\ reg_timer = "idle")
    /\ ~inv_late
    /\ ~reg_late

\* C25: whenever the last registration handler to run was onRegState with a
\* status in 400..599, or _retry_registration with setRegistration raising,
\* it left a retry timer armed.
C25_RegistrationRetryUnbounded ==
    reg_last.kind \in {"failure", "raised"} => reg_last.armed

(***************************************************************************)
(* Claims about the session tokens (SpecAuth)                              *)
(***************************************************************************)

IsConfigMessage(msg) == msg \in {"session.update", "config"}

\* The message carries audio, in either mode.
IsAudioMessage(msg) == msg \in {"append", "audio"}

\* C29: a session writes at most one configuration message; once its socket
\* is open it has written exactly one, the one of its mode, as the first
\* message; and every audio message comes after it.
C29_OneConfigBeforeAudio ==
    /\ Count(sent, "session.update") + Count(sent, "config") <= 1
    /\ ws # "unset" =>
          /\ Count(sent, "session.update") + Count(sent, "config") = 1
          /\ sent[1] = (IF sess_mode = "realtime" THEN "session.update" ELSE "config")
    /\ \A i \in 1..Len(sent) :
          IsAudioMessage(sent[i]) => \E j \in 1..(i - 1) : IsConfigMessage(sent[j])

\* A legacy session that has sent its configuration object and then audio.
C29_Witness ==
    /\ sess_mode = "legacy"
    /\ Len(sent) >= 2
    /\ sent[1] = "config"
    /\ sent[2] = "audio"

\* C30: every call of _close_websocket returns to the session coroutine,
\* which never ends by raising once it has begun to close; the first call
\* closes the socket with code 1000, whether or not the close raises; after
\* a call has returned the call object holds no socket; every later call
\* finds none and closes nothing; and in realtime mode the commit step has
\* run (sent, failed or found nothing to send) before the first close.
C30_CloseIdempotent ==
    /\ close_calls # <<>> =>
          /\ main_pc \in {"m_await_recv", "m_returned"}
          /\ ws = "cleared"
          /\ close_calls[1].held
          /\ close_calls[1].code = 1000
          /\ sess_mode = "legacy" => close_calls[1].commit = "none"
          /\ sess_mode = "realtime" => close_calls[1].commit \in {"sent", "failed", "skipped"}
    /\ \A i \in 2..Len(close_calls) :
          /\ ~close_calls[i].held
          /\ close_calls[i].code = 0
          /\ ~close_calls[i].error
    /\ main_pc = "m_close" => close_commit # "pending"
    /\ main_pc = "m_raised" => close_calls = <<>> /\ close_commit = "pending"

\* A realtime session whose close raised, and a second call after it.
C30_Witness ==
    /\ sess_mode = "realtime"
    /\ Len(close_calls) = 2
    /\ close_calls[1].error
    /\ close_calls[1].commit = "sent"
    /\ ~close_calls[2].held
    /\ ws = "cleared"

(***************************************************************************)
(* Claims about flush_playback at the end of a receive loop                *)
(***************************************************************************)

\* How many entries of a sequence of frames equal a given frame.
RECURSIVE FrameCount(_, _)
FrameCount(q, f) ==
    IF q = <<>> THEN 0
    ELSE (IF Head(q) = f THEN 1 ELSE 0) + FrameCount(Tail(q), f)

\* How many frames handed to the telephony side equal a given frame.
RECURSIVE PlayedCount(_, _)
PlayedCount(out, f) ==
    IF out = <<>> THEN 0
    ELSE (IF Head(out).buf = f THEN 1 ELSE 0) + PlayedCount(Tail(out), f)

\* C28: when the receive loop has ended and flush_playback has returned,
\* the partial playback buffer is empty, and residual bytes, if there were
\* any, went out as exactly one normalized frame: the frame is one frame
\* long, it was not dropped, and it is in the playback queue or was handed
\* to the telephony side once and no more.
C28_FlushAtLoopEnd ==
    pp_pc \in FlushEnded =>
        /\ playback_buffer = <<>>
        /\ pp_pc # "ended_dropped"
        /\ pp_pc = "ended_queued" =>
              /\ Len(pp_chunk) = FRAME_BYTES
              /\ FrameCount(playback_queue, pp_chunk)
                   + PlayedCount(pb_out, pp_chunk) = 1

(***************************************************************************)
(* Claims about the call-state events of one Call (SpecCall)               *)
(***************************************************************************)
LiveWorkers == Cardinality({i \in 1..Len(cl_workers) : cl_workers[i].live})

ActiveBridges == Cardinality({i \in 1..Len(cl_bridges) : cl_bridges[i]})

\* C31: a confirmation with audio enabled creates exactly one bridge and one
\* provider thread of the configured mode; at no time does the Call have
\* more than one live provider thread or more than one active bridge; with
\* audio disabled none is ever created.
C31_OneBridgeOneWorker ==
    /\ [](/\ LiveWorkers <= 1
          /\ ActiveBridges <= 1
          /\ \A i \in 1..Len(cl_workers) : cl_workers[i].mode = cl_mode
          /\ ~cl_audio => (cl_bridges = <<>> /\ cl_workers = <<>>))
    /\ [][(cl_state = "setup" /\ cl_state' = "up" /\ cl_audio) =>
             /\ cl_bridges' = Append(cl_bridges, TRUE)
             /\ cl_workers' = Append(cl_workers, [mode |-> cl_mode, live |-> TRUE])]_vars

StepRank(step) ==
    CASE step = "cancel" -> 1
      [] step = "drain" -> 2
      [] step = "stop" -> 3
      [] step = "join" -> 4
      [] step = "retry" -> 5

InLog(step) == \E i \in 1..Len(cl_log) : cl_log[i] = step

\* C32: the DISCONNECTED handler cancels the retry timer first, waits for
\* the playback drain before it stops the bridge, stops the bridge before it
\* joins the provider thread, and decides on the retry last: the bridge is
\* never stopped without the drain wait before it, and no retry is scheduled
\* while a bridge of the call is still active.
C32_DisconnectOrder ==
    /\ \A i \in 1..Len(cl_log) : \A j \in 1..Len(cl_log) :
          i < j => StepRank(cl_log[i]) < StepRank(cl_log[j])
    /\ cl_log # <<>> => cl_log[1] = "cancel"
    /\ InLog("stop") <=> (InLog("drain") /\ cl_pc \notin {"dc_drain", "dc_stop"})
    /\ cl_pc \in {"dc_join", "dc_decide"} => ActiveBridges = 0
    /\ (cl_bridges # <<>> /\ cl_pc \in {"dc_join", "dc_decide"}) => InLog("stop")
    /\ cl_timer = "armed" => ActiveBridges = 0
    /\ cl_pc # "idle" => cl_timer = "idle"

\* A disconnect of a call with a bridge and a live provider thread has been
\* handled to the end and has scheduled a retry.
C32_Witness ==
    /\ cl_pc = "idle"
    /\ cl_log = <<"cancel", "drain", "stop", "join", "retry">>
    /\ cl_timer = "armed"

\* C33: the retry decision after a disconnect arms the invite retry timer
\* exactly when the call is outbound (target_uri set, role UAC), the status
\* is in 400..599 and the attempt counter is below the maximum; a Call of an
\* inbound call never has the timer armed.
C33_RetryIffFailedOutbound ==
    /\ cl_last.kind = "decided" =>
          /\ cl_last.armed <=>
                (/\ cl_target = "uri"
                 /\ cl_role = "UAC"
                 /\ cl_last.status >= 400
                 /\ cl_last.status <= 599
                 /\ cl_last.attempts < SIP_INVITE_MAX_ATTEMPTS)
          /\ cl_timer = (IF cl_last.armed THEN "armed" ELSE "idle")
    /\ cl_role = "UAS" => cl_timer = "idle"

\* An outbound call was disconnected with a failure status and the retry
\* was scheduled.
C33_Witness ==
    /\ cl_last.kind = "decided"
    /\ cl_last.armed
    /\ cl_last.status = 599
    /\ cl_last.attempts = SIP_INVITE_MAX_ATTEMPTS - 1

(***************************************************************************)
(* Claims about EndpointTimer (SpecTimer)                                   *)
(***************************************************************************)
ArmedTimers ==
    (IF tm_native = "armed" THEN 1 ELSE 0)
      + Cardinality({i \in 1..Len(tm_timers) : tm_timers[i].state = "waiting"})

\* C34: at most one timer of an EndpointTimer is armed at any time, and a
\* timer that was cancelled, by cancel() or by a later schedule(), does not
\* invoke the callback afterwards.
C34_OneArmedNoStaleCallback ==
    /\ ArmedTimers <= 1
    /\ \A i \in 1..Len(tm_timers) : ~tm_timers[i].late

\* C35: without a working native facility every schedule() arms a thread
\* timer and no native entry; a thread timer invokes the callback once and
\* no more, and by then its thread was registered with the library, or was
\* registered already.
C35_FallbackRegistersThread ==
    /\ falls_back(tm_env) => tm_native = "idle" /\ tm_native_calls = 0
    /\ ~falls_back(tm_env) => tm_timers = <<>>
    /\ \A i \in 1..Len(tm_timers) :
          /\ tm_timers[i].calls = (IF tm_timers[i].state = "done" THEN 1 ELSE 0)
          /\ tm_timers[i].calls > 0 => tm_timers[i].reg \in {"yes", "already"}

(***************************************************************************)
(* Claims about the correlation id (SpecCorr)                               *)
(***************************************************************************)
\* C36: the Call's correlation id is the one generated at its creation and
\* never changes; every log emitted through _log_event is emitted with that
\* id current; leaving a correlation scope restores the id that was current
\* before the scope was entered.
C36_CorrelationIdStable ==
    /\ co_id = co_first
    /\ co_id # 0
    /\ co_log \in {0, co_first}
    /\ co_left.n > 0 => co_left.now = co_left.prev

\* _log_event has emitted a log inside a scope of another id, after the
\* Call was registered with the monitor, and a scope has been left.
C36_Witness ==
    /\ co_log = co_first
    /\ co_left.n > 0
    /\ co_left.prev = OtherCorrId
    /\ co_ops = MaxCorrOps

(***************************************************************************)
(* Claims about the termination of stop() (SpecBridgeFair)                  *)
(***************************************************************************)
\* C37: a call of stop() that has not returned yet eventually returns with
\* the bridge inactive, whatever the playback queue and the partial buffer
\* hold and whether or not the telephony side still pulls frames.
C37_StopTerminates ==
    (stop_pc # "idle") ~> (stop_pc = "idle" /\ ~is_active)

(***************************************************************************)
(* Claims about the partial playback buffer between the provider thread   *)
(* and the telephony thread (SpecBridge)                                    *)
(***************************************************************************)
\* The audio bytes handed to the telephony side so far, in order.
PlayedBytes == AudioBytes([i \in 1..Len(pb_out) |-> pb_out[i].buf])

\* Nothing of the playback side is under way or waiting.
PlaybackQuiet ==
    /\ pp_pc \in {"idle"} \cup FlushEnded
    /\ ofr_pc = "idle"
    /\ playback_queue = <<>>
    /\ playback_buffer = <<>>

\* C38: with the bridge active and stop() not involved, the bytes handed to
\* the telephony side are bytes queue_playback_frame received, each at most
\* once and in the order of arrival, and once the playback side has come
\* to rest none of the bytes received is missing.
C38_PlaybackOnceInOrder ==
    (dir = "playback" /\ stop_calls = 0) =>
        /\ \A i \in 1..Len(PlayedBytes) : \A j \in 1..Len(PlayedBytes) :
              i < j => PlayedBytes[i] < PlayedBytes[j]
        /\ (PlaybackQuiet /\ dropped = 0) =>
              {PlayedBytes[i] : i \in 1..Len(PlayedBytes)} = 1..pb_seen

(***************************************************************************)
(* Claims about the capture drain of the send loop (SpecDrain)              *)
(***************************************************************************)
\* C39: when the send loop has ended with the socket open, no capture frame
\* is left in the capture queue ahead of stop()'s sentinel, that is, no
\* frame that was queued before stop() marked the bridge inactive; such a
\* frame was taken from the queue and written to the socket.
C39_CaptureDrained ==
    (sl_pc = "ended" /\ sl_ws = "open") =>
        \A i \in 1..Len(capture_queue) : \A j \in 1..Len(capture_queue) :
            (i < j /\ capture_queue[j] = <<>>) => capture_queue[i] = <<>>

(***************************************************************************)
(* Claims about the reconnection of EnhancedAccount (SpecRecon)            *)
(***************************************************************************)
\* A reconnect task has been created and has not finished.
ReconnectPending == rc_task \in {"sleeping", "attempting"}

\* The last registration attempt failed and the retry limit is not reached.
FailingBelowLimit == rc_failed /\ ~rc_registered /\ rc_attempts < RetryMax

\* C40: while registration keeps failing and registration_attempts is below
\* sip_registration_retry_max, a reconnect attempt is always eventually
\* pending again, also when _attempt_registration raises inside a reconnect
\* task; and at most one reconnect task is pending at any time.
C40_RetryChainNeverStalls ==
    /\ [](rc_pending <= 1)
    /\ (FailingBelowLimit ~> (ReconnectPending \/ ~FailingBelowLimit))

=============================================================================
